---- MODULE Spec2Model ----
(***************************************************************************)
(* Model of the Email-agent front end: the zustand store (lib/api.ts), the *)
(* inbox view, the agent chat, the general chat and the useRagChat hook,   *)
(* together with the part of the backend that the store talks to.          *)
(***************************************************************************)
EXTENDS Integers, Sequences, FiniteSets, TLC

\* ------------------------------------------------------------------ bounds

\* operations the user (or a timer) starts on the store in one behaviour
MaxOps == 3
\* events one ingestion stream delivers before it ends
MaxEvents == 2
\* toggle / delete calls made from the Action Items view in one behaviour
MaxTaskOps == 3
MaxSends == 2
MaxClicks == 2

\* ------------------------------------------------------------- data types

NoId == "<null>"
NoCategory == "<undefined>"

\* GmailStatus | null; `known` is FALSE for null
NoStatus == [known |-> FALSE, authenticated |-> FALSE]
StatusOf(auth) == [known |-> TRUE, authenticated |-> auth]

\* The emails the backend holds, in the order GET /emails lists them.
Universe == <<"g1", "g2", "d1", "m1">>

SourceOf(id) ==
    CASE id = "g1" -> "gmail"
      [] id = "g2" -> "gmail"
      [] id = "d1" -> "Gmail_Draft"
      [] id = "n1" -> "gmail"
      [] id = "m1" -> "mock"
      [] OTHER -> "<undefined>"

\* String.prototype.toLowerCase on the source strings in use
ToLower(s) ==
    CASE s = "Gmail_Draft" -> "gmail_draft"
      [] s = "Gmail" -> "gmail"
      [] OTHER -> s

\* the predicate both branches of filterEmailsForDisplay test
IsGmailSource(e) ==
    \/ ToLower(SourceOf(e.id)) = "gmail"
    \/ ToLower(SourceOf(e.id)) = "gmail_draft"

\* Email.subject, as a sequence of characters
SubjectOf(id) ==
    CASE id = "g1" -> <<"H", "i">>
      [] id = "g2" -> <<"R", "E", ":", " ", "h", "i">>
      [] id = "d1" -> <<"F", "w", "d", ":", " ", "R", "e", ":", " ", "H", "i", " ">>
      [] id = "n1" -> <<"R", "E", ":", " ", "h", "i">>
      [] OTHER -> <<"L", "u", "n", "c", "h">>

\* Email.thread_id: the remote mailbox's conversation id (absent for mock mail)
ThreadIdOf(id) ==
    CASE id = "g1" -> "t1"
      [] id = "g2" -> "t2"
      [] id = "d1" -> "t3"
      [] OTHER -> "<undefined>"

\* the time value of an Invalid Date
NaN == 0 - 1

\* new Date(email.timestamp).getTime(); the timestamp string of n1 is one
\* that Date cannot parse
TimestampOf(id) ==
    CASE id = "g1" -> 1
      [] id = "g2" -> 2
      [] id = "d1" -> 3
      [] id = "n1" -> NaN
      [] OTHER -> 4

\* a > b on the time values of two Dates: false when either is NaN
DateGt(a, b) == a # NaN /\ b # NaN /\ a > b

\* the order of ids under Array.prototype.sort's default string comparison
IdRank(id) ==
    CASE id = "d1" -> 1
      [] id = "g1" -> 2
      [] id = "g2" -> 3
      [] OTHER -> 4

Task(t, c) == [task |-> t, completed |-> c]

FreshEmail(id) ==
    [id |-> id, category |-> NoCategory, action_items |-> <<>>, read |-> FALSE]

\* -------------------------------------------------------------- variables

VARIABLES
    \* --- the store (useStore)
    emails, allEmails, gmailStatus, selectedEmailId, selectedThreadEmails,
    isLoading, isSyncingGmail,
    \* --- asynchronous store operations in flight
    runs,          \* ingestEmails calls that have not returned yet
    ops,           \* how many store operations were started
    pcFetch, pcReset, pcLoad, pcLogout, pcSync,
    logoutStatus,  \* logoutGmail: the status the first await returned
    syncEmails,    \* manualGmailSync: the list the second await returned
    netTasks,      \* toggle / delete requests sent and not yet processed
    taskOps,       \* how many toggle / delete calls were made
    \* --- the backend
    srv,           \* the Email Store, as GET /emails lists it
    srvAuth,       \* whether the backend holds a Gmail credential
    \* --- history
    afterLogout,   \* logoutGmail completed and no authenticated status since
    \* --- InboxViewer
    expandedThreads,
    clicks,        \* the clicks made in the inbox list and on the agent's reset so far
    \* --- AgentChat
    history, agentLoading, agentReqs, agentSends,
    \* --- Chat
    messages, chatLoading, chatReqs, chatSends,
    \* --- useRagChat
    session, ragLoading, ragError, ragReqs, ragSends,
    ragSessions,   \* the session ids the backend has created
    \* --- history of the chat requests
    chatLog,       \* the /chat request settled last: its outcome and what was appended
    ragLog,        \* the session_id of each sendMessage since the last clearSession
    ragCleared,    \* clearSession has returned and nothing was sent or received since
    \* --- DraftEditor, ComposePage, GmailComposer and the draft buttons of Home
    showDraftEditor, draft, draftLoading, isSending, composeError,
    calls,         \* the handlers in flight: which one and the request it awaits
    outbox,        \* every request these handlers have issued, with its handler
    draftOps,      \* how many of these handlers were started
    \* --- localStorage
    lsAgent,       \* the item email-agent-history
    lsChat,        \* the item general-chat-history
    oldKeys,       \* the conversations of history that hold messages from before
                   \* the last disconnect
    oldChat,       \* messages holds messages from before the last disconnect
    \* --- Home
    pcAuth,        \* where handleAuthMessage stands
    authEmails,    \* the GET /emails answer its manualGmailSync holds
    reqLog,        \* the requests handleAuthMessage has issued, in order
    activeTab,     \* Home's activeTab
    syncFailures,  \* the failed syncs seen so far: the cause and what the user got
    afterReset     \* the last resetInbox: its scope and whether it completed with no run started since

\* a localStorage item: absent, or the value the last setItem wrote
NoItem == [present |-> FALSE, value |-> <<>>]
Item(v) == [present |-> TRUE, value |-> v]

\* no resetInbox has answered, or an ingestion run was started since
NoReset == [state |-> "none", gmail |-> FALSE]

storeVars == <<emails, allEmails, gmailStatus, selectedEmailId,
               selectedThreadEmails, isLoading, isSyncingGmail>>
opState == <<runs, pcFetch, pcReset, pcLoad, pcLogout, pcSync,
             logoutStatus, syncEmails, netTasks, taskOps>>
opVars == <<opState, ops>>
srvVars == <<srv, srvAuth>>
inboxVars == <<expandedThreads, clicks>>
agentVars == <<history, agentLoading, agentReqs, agentSends, lsAgent, oldKeys>>
chatVars == <<messages, chatLoading, chatReqs, chatSends, lsChat, oldChat>>
ragVars == <<session, ragLoading, ragError, ragReqs, ragSends, ragSessions, ragLog,
             ragCleared>>
homeVars == <<pcAuth, authEmails, reqLog, activeTab>>
draftVars == <<showDraftEditor, draft, draftLoading, isSending, composeError,
               calls, outbox, draftOps>>
compVars == <<inboxVars, agentVars, chatVars, ragVars, chatLog, draftVars>>
ghostVars == <<syncFailures, afterReset>>
uiVars == <<compVars, homeVars, ghostVars, draftVars>>
vars == <<storeVars, opVars, srvVars, afterLogout, uiVars>>

\* ---------------------------------------------------------------- helpers

MapSeq(s, F(_)) == [i \in 1..Len(s) |-> F(s[i])]

Range(s) == {s[i] : i \in 1..Len(s)}

RemoveAt(s, i) == [j \in 1..(Len(s) - 1) |-> IF j < i THEN s[j] ELSE s[j + 1]]

\* filterEmailsForDisplay with the filter dropped when Gmail is not connected
filterEmailsForDisplay_NoFilter(list, status) ==
    IF status.known /\ status.authenticated
    THEN SelectSeq(list, IsGmailSource)
    ELSE list

filterEmailsForDisplay(list, status) ==
    IF status.known /\ status.authenticated
    THEN SelectSeq(list, IsGmailSource)
    ELSE SelectSeq(list, LAMBDA e : ~IsGmailSource(e))

\* --------------------------------------------------- the backend (Email Store)

SrvIds == {srv[i].id : i \in 1..Len(srv)}

\* update-by-id of one field group of the Email Store
SrvSetCategory(list, id, c) ==
    MapSeq(list, LAMBDA e : IF e.id = id THEN [e EXCEPT !.category = c] ELSE e)

SrvSetItems(list, id, items) ==
    MapSeq(list, LAMBDA e : IF e.id = id THEN [e EXCEPT !.action_items = items] ELSE e)

\* Reset: clears category and action_items of the emails of the active scope
SrvReset(list, auth) ==
    MapSeq(list, LAMBDA e :
        IF IsGmailSource(e) = auth
        THEN [e EXCEPT !.category = NoCategory, !.action_items = <<>>]
        ELSE e)

\* ------------------------------------------------- ingestion stream events

GroqMessage == <<"Error calling ", "Groq", ": ", "rate limit">>
OllamaMessage == <<"Error calling ", "Ollama", ": ", "connection refused">>
NoMessage == <<>>

\* data.message?.includes("Error calling Groq"): a contiguous occurrence
Includes(msg, part) ==
    \E k \in 0..(Len(msg) - Len(part)) :
        \A j \in 1..Len(part) : msg[k + j] = part[j]

ErrorEvent(m) == [type |-> "error", id |-> NoId, category |-> NoCategory,
                  action_items |-> <<>>, message |-> m]
CategoryEvent(id, c) == [type |-> "category", id |-> id, category |-> c,
                         action_items |-> <<>>, message |-> NoMessage]
ActionItemsEvent(id, items) == [type |-> "action_items", id |-> id,
                                category |-> NoCategory, action_items |-> items,
                                message |-> NoMessage]
PlainEvent(t) == [type |-> t, id |-> NoId, category |-> NoCategory,
                  action_items |-> <<>>, message |-> NoMessage]

\* the emails an ingestion run reports on, and what it reports
EventIds == {"g1", "m1"}
Events ==
    {ErrorEvent(m) : m \in {GroqMessage, OllamaMessage}}
    \cup {CategoryEvent(id, "Work") : id \in EventIds}
    \cup {ActionItemsEvent("m1", <<Task("reply", FALSE)>>)}
    \cup {PlainEvent("complete"), PlainEvent("warning")}

\* the backend commits a result to the Email Store before it emits the event
SrvCommit(list, ev) ==
    IF ev.type = "category" THEN SrvSetCategory(list, ev.id, ev.category)
    ELSE IF ev.type = "action_items" THEN SrvSetItems(list, ev.id, ev.action_items)
    ELSE list

\* ------------------------------------------------- ingestEmails (the client)

NewRun(status) ==
    [status |-> status, hasShownError |-> FALSE, pc |-> "post", pending |-> <<>>,
     n |-> 0,
     \* history of the run: error messages received, alerts shown, whether
     \* a category / action_items event was applied after an error event, whether
     \* a warning was received and whether such an event was applied after it
     errSeen |-> {}, alerts |-> <<>>, lateApply |-> FALSE,
     warned |-> FALSE, appliedAfterWarning |-> FALSE]

\* the `category` branch: set((state) => ...)
ApplyCategory(list, ev) ==
    MapSeq(list, LAMBDA e : IF e.id = ev.id THEN [e EXCEPT !.category = ev.category] ELSE e)

\* the `action_items` branch
ApplyActionItems(list, ev) ==
    MapSeq(list, LAMBDA e :
        IF e.id = ev.id THEN [e EXCEPT !.action_items = ev.action_items] ELSE e)

\* the first branch taken for every error and every warning event
IsTerminalError_OrWarning(ev) == ev.type \in {"error", "warning"}

\* the first branch of the for-loop body
IsTerminalError(ev) ==
    ev.type = "error" /\ Includes(ev.message, <<"Error calling ", "Groq">>)

\* The for-loop over the lines of one chunk, up to the next await, return or
\* the end of the chunk. st = [all, shown, run].
RECURSIVE ProcessLines(_, _)
ProcessLines(st, lines) ==
    IF lines = <<>> THEN [st EXCEPT !.run.pc = "read", !.run.pending = <<>>]
    ELSE
        LET ev == Head(lines)
            rest == Tail(lines)
            r == st.run
            seen == IF ev.type = "error" THEN r.errSeen \cup {ev.message} ELSE r.errSeen
        IN
        IF IsTerminalError(ev) THEN
            [st EXCEPT !.run = [r EXCEPT
                !.hasShownError = TRUE,
                !.alerts = IF r.hasShownError THEN @ ELSE Append(@, ev.message),
                !.errSeen = seen,
                !.pc = "refresh_error",
                !.pending = <<>>]]
        ELSE IF ev.type = "category" THEN
            LET all == ApplyCategory(st.all, ev) IN
            ProcessLines([all |-> all,
                          shown |-> filterEmailsForDisplay(all, r.status),
                          run |-> [r EXCEPT !.lateApply = @ \/ r.errSeen # {},
                                            !.appliedAfterWarning = @ \/ r.warned]],
                         rest)
        ELSE IF ev.type = "action_items" THEN
            LET all == ApplyActionItems(st.all, ev) IN
            ProcessLines([all |-> all,
                          shown |-> filterEmailsForDisplay(all, r.status),
                          run |-> [r EXCEPT !.lateApply = @ \/ r.errSeen # {},
                                            !.appliedAfterWarning = @ \/ r.warned]],
                         rest)
        ELSE IF ev.type = "complete" THEN
            [st EXCEPT !.run = [r EXCEPT !.pc = "refresh_complete", !.pending = rest]]
        ELSE IF ev.type = "partial" THEN
            \* a line that starts with "data: " and is no JSON: JSON.parse throws
            [st EXCEPT !.run = [r EXCEPT !.pc = "throw", !.pending = <<>>]]
        ELSE
            ProcessLines([st EXCEPT !.run.errSeen = seen,
                                    !.run.warned = @ \/ ev.type = "warning"], rest)

\* Run Ingestion button (disabled while isLoading) -> handleIngest -> ingestEmails,
\* up to the first await
ingestEmails ==
    /\ ~isLoading
    /\ ops < MaxOps
    /\ isLoading' = TRUE
    /\ runs' = Append(runs, NewRun(gmailStatus))
    /\ ops' = ops + 1
    /\ UNCHANGED <<emails, allEmails, gmailStatus, selectedEmailId,
                   selectedThreadEmails, isSyncingGmail>>
    /\ UNCHANGED <<pcFetch, pcReset, pcLoad, pcLogout, pcSync,
                   logoutStatus, syncEmails, netTasks, taskOps>>
    /\ UNCHANGED <<srvVars, afterLogout>>
    /\ afterReset' = NoReset
    /\ UNCHANGED <<compVars, homeVars, syncFailures>>

\* POST /ingest answers: response.ok, or not (the throw runs `finally`)
IngestResponse ==
    \E i \in 1..Len(runs), ok \in BOOLEAN :
        /\ runs[i].pc = "post"
        /\ IF ok
           THEN /\ runs' = [runs EXCEPT ![i].pc = "read"]
                /\ UNCHANGED isLoading
           ELSE /\ runs' = RemoveAt(runs, i)
                /\ isLoading' = FALSE
        /\ UNCHANGED <<emails, allEmails, gmailStatus, selectedEmailId,
                       selectedThreadEmails, isSyncingGmail>>
        /\ UNCHANGED <<ops, pcFetch, pcReset, pcLoad, pcLogout, pcSync,
                       logoutStatus, syncEmails, netTasks, taskOps>>
        /\ UNCHANGED <<srvVars, afterLogout>>
        /\ UNCHANGED uiVars

\* chunks of one or two complete `data: ` lines
Chunks == {<<e>> : e \in Events} \cup {<<e1, e2>> : e1 \in Events, e2 \in Events}

\* the events all the runs have read so far
RECURSIVE SumRead(_)
SumRead(rs) == IF rs = <<>> THEN 0 ELSE Head(rs).n + SumRead(Tail(rs))
EventsRead == SumRead(runs)

\* reader.read() resolves with a chunk: the for-loop runs up to its next await
IngestRead ==
    \E i \in 1..Len(runs), chunk \in Chunks :
        /\ runs[i].pc = "read"
        /\ EventsRead + Len(chunk) <= MaxEvents
        /\ LET committed == IF Len(chunk) = 1 THEN SrvCommit(srv, chunk[1])
                            ELSE SrvCommit(SrvCommit(srv, chunk[1]), chunk[2])
               st == ProcessLines([all |-> allEmails, shown |-> emails,
                                   run |-> [runs[i] EXCEPT !.n = @ + Len(chunk)]], chunk)
           IN /\ srv' = committed
              /\ allEmails' = st.all
              /\ emails' = st.shown
              /\ runs' = [runs EXCEPT ![i] = st.run]
        /\ UNCHANGED <<gmailStatus, selectedEmailId, selectedThreadEmails,
                       isLoading, isSyncingGmail>>
        /\ UNCHANGED <<ops, pcFetch, pcReset, pcLoad, pcLogout, pcSync,
                       logoutStatus, syncEmails, netTasks, taskOps>>
        /\ UNCHANGED <<srvAuth, afterLogout>>
        /\ UNCHANGED uiVars

\* where a read chunk can end inside a `data: ` line: inside the "data: "
\* prefix, or inside the JSON text after it
SplitPoints == {"prefix", "json"}

\* the two pieces of a line cut in two: chunk.split("\n") yields each as a
\* line of its chunk. A piece that does not start with "data: " is stepped
\* over; the first piece of a line cut inside its JSON starts with "data: "
SplitLine(ev, where) ==
    IF where = "prefix" THEN <<PlainEvent("rest"), PlainEvent("rest")>>
    ELSE <<PlainEvent("partial"), PlainEvent("rest")>>

\* the reader loop on the two chunks that hold the two pieces of one line
ReadSplit(st, ev, where) ==
    LET first == ProcessLines(st, <<SplitLine(ev, where)[1]>>)
    IN IF first.run.pc = "read"
       THEN ProcessLines(first, <<SplitLine(ev, where)[2]>>)
       ELSE first

\* reader.read() resolves with a chunk that ends inside the line of an event,
\* and (no piece being acted on) with the chunk that holds the rest; a throw
\* of JSON.parse leaves the loop and runs `finally`
IngestReadSplit ==
    \E i \in 1..Len(runs), ev \in Events, where \in SplitPoints :
        /\ runs[i].pc = "read"
        /\ EventsRead + 1 <= MaxEvents
        /\ LET st == ReadSplit([all |-> allEmails, shown |-> emails,
                                run |-> [runs[i] EXCEPT !.n = @ + 1]], ev, where)
           IN /\ srv' = SrvCommit(srv, ev)
              /\ allEmails' = st.all
              /\ emails' = st.shown
              /\ IF st.run.pc = "throw"
                 THEN /\ runs' = RemoveAt(runs, i)
                      /\ isLoading' = FALSE
                 ELSE /\ runs' = [runs EXCEPT ![i] = st.run]
                      /\ UNCHANGED isLoading
        /\ UNCHANGED <<gmailStatus, selectedEmailId, selectedThreadEmails,
                       isSyncingGmail>>
        /\ UNCHANGED <<ops, pcFetch, pcReset, pcLoad, pcLogout, pcSync,
                       logoutStatus, syncEmails, netTasks, taskOps>>
        /\ UNCHANGED <<srvAuth, afterLogout>>
        /\ UNCHANGED uiVars

\* reader.read() resolves with done (or rejects): the loop ends, `finally` runs
IngestDone ==
    \E i \in 1..Len(runs) :
        /\ runs[i].pc = "read"
        /\ runs' = RemoveAt(runs, i)
        /\ isLoading' = FALSE
        /\ UNCHANGED <<emails, allEmails, gmailStatus, selectedEmailId,
                       selectedThreadEmails, isSyncingGmail>>
        /\ UNCHANGED <<ops, pcFetch, pcReset, pcLoad, pcLogout, pcSync,
                       logoutStatus, syncEmails, netTasks, taskOps>>
        /\ UNCHANGED <<srvVars, afterLogout>>
        /\ UNCHANGED uiVars

\* the awaited api.getEmails() of the error branch resolves: refresh and return
IngestRefreshError ==
    \E i \in 1..Len(runs) :
        /\ runs[i].pc = "refresh_error"
        /\ allEmails' = srv
        /\ emails' = filterEmailsForDisplay(srv, runs[i].status)
        /\ runs' = RemoveAt(runs, i)
        /\ isLoading' = FALSE
        /\ UNCHANGED <<gmailStatus, selectedEmailId, selectedThreadEmails,
                       isSyncingGmail>>
        /\ UNCHANGED <<ops, pcFetch, pcReset, pcLoad, pcLogout, pcSync,
                       logoutStatus, syncEmails, netTasks, taskOps>>
        /\ UNCHANGED <<srvVars, afterLogout>>
        /\ UNCHANGED uiVars

\* the awaited api.getEmails() of the complete branch resolves: refresh, then
\* the for-loop goes on with the rest of the chunk
IngestRefreshComplete ==
    \E i \in 1..Len(runs) :
        /\ runs[i].pc = "refresh_complete"
        /\ LET st == ProcessLines(
                        [all |-> srv,
                         shown |-> filterEmailsForDisplay(srv, runs[i].status),
                         run |-> runs[i]], runs[i].pending)
           IN /\ allEmails' = st.all
              /\ emails' = st.shown
              /\ runs' = [runs EXCEPT ![i] = st.run]
        /\ UNCHANGED <<gmailStatus, selectedEmailId, selectedThreadEmails,
                       isLoading, isSyncingGmail>>
        /\ UNCHANGED <<ops, pcFetch, pcReset, pcLoad, pcLogout, pcSync,
                       logoutStatus, syncEmails, netTasks, taskOps>>
        /\ UNCHANGED <<srvVars, afterLogout>>
        /\ UNCHANGED uiVars

\* an awaited api.getEmails() inside ingestEmails rejects: `finally` runs
IngestRefreshFails ==
    \E i \in 1..Len(runs) :
        /\ runs[i].pc \in {"refresh_error", "refresh_complete"}
        /\ runs' = RemoveAt(runs, i)
        /\ isLoading' = FALSE
        /\ UNCHANGED <<emails, allEmails, gmailStatus, selectedEmailId,
                       selectedThreadEmails, isSyncingGmail>>
        /\ UNCHANGED <<ops, pcFetch, pcReset, pcLoad, pcLogout, pcSync,
                       logoutStatus, syncEmails, netTasks, taskOps>>
        /\ UNCHANGED <<srvVars, afterLogout>>
        /\ UNCHANGED uiVars


\* ------------------------------------------------ the other store operations

\* fetchEmails up to its await (called on mount and after a Gmail connection)
fetchEmails ==
    /\ pcFetch = "idle"
    /\ pcFetch' = "get"
    /\ isLoading' = TRUE
    /\ UNCHANGED <<emails, allEmails, gmailStatus, selectedEmailId,
                   selectedThreadEmails, isSyncingGmail>>
    /\ UNCHANGED <<runs, pcReset, pcLoad, pcLogout, pcSync,
                   logoutStatus, syncEmails, netTasks, taskOps>>
    /\ UNCHANGED <<srvVars, afterLogout>>
    /\ ops < MaxOps
    /\ ops' = ops + 1
    /\ UNCHANGED uiVars

\* api.getEmails() resolves (ok) or rejects; `finally` clears isLoading
FetchEmailsDone_NoFinally ==
    \E ok \in BOOLEAN :
        /\ pcFetch = "get"
        /\ pcFetch' = "idle"
        /\ IF ok
           THEN /\ allEmails' = srv
                /\ emails' = filterEmailsForDisplay(srv, gmailStatus)
                /\ isLoading' = FALSE
           ELSE UNCHANGED <<allEmails, emails, isLoading>>
        /\ UNCHANGED <<gmailStatus, selectedEmailId, selectedThreadEmails,
                       isSyncingGmail>>
        /\ UNCHANGED <<runs, ops, pcReset, pcLoad, pcLogout, pcSync,
                       logoutStatus, syncEmails, netTasks, taskOps>>
        /\ UNCHANGED <<srvVars, afterLogout>>
        /\ UNCHANGED uiVars
FetchEmailsDone ==
    \E ok \in BOOLEAN :
        /\ pcFetch = "get"
        /\ pcFetch' = "idle"
        /\ IF ok
           THEN /\ allEmails' = srv
                /\ emails' = filterEmailsForDisplay(srv, gmailStatus)
           ELSE UNCHANGED <<allEmails, emails>>
        /\ isLoading' = FALSE
        /\ UNCHANGED <<gmailStatus, selectedEmailId, selectedThreadEmails,
                       isSyncingGmail>>
        /\ UNCHANGED <<runs, ops, pcReset, pcLoad, pcLogout, pcSync,
                       logoutStatus, syncEmails, netTasks, taskOps>>
        /\ UNCHANGED <<srvVars, afterLogout>>
        /\ UNCHANGED uiVars

\* Reset Ingestion button (never disabled) -> handleReset -> resetInbox
resetInbox ==
    /\ pcReset = "idle"
    /\ pcReset' = "reset"
    /\ isLoading' = TRUE
    /\ UNCHANGED <<emails, allEmails, gmailStatus, selectedEmailId,
                   selectedThreadEmails, isSyncingGmail>>
    /\ UNCHANGED <<runs, pcFetch, pcLoad, pcLogout, pcSync,
                   logoutStatus, syncEmails, netTasks, taskOps>>
    /\ UNCHANGED <<srvVars, afterLogout>>
    /\ ops < MaxOps
    /\ ops' = ops + 1
    /\ UNCHANGED uiVars

\* POST /reset answers: the backend has cleared the ingestion state
ResetInboxReset ==
    \E ok \in BOOLEAN :
        /\ pcReset = "reset"
        /\ IF ok
           THEN /\ srv' = SrvReset(srv, srvAuth)
                /\ pcReset' = "get"
                /\ UNCHANGED isLoading
           ELSE /\ pcReset' = "idle"
                /\ isLoading' = FALSE
                /\ UNCHANGED srv
        /\ UNCHANGED <<emails, allEmails, gmailStatus, selectedEmailId,
                       selectedThreadEmails, isSyncingGmail>>
        /\ UNCHANGED <<runs, ops, pcFetch, pcLoad, pcLogout, pcSync,
                       logoutStatus, syncEmails, netTasks, taskOps>>
        /\ UNCHANGED <<srvAuth, afterLogout>>
        /\ afterReset' = IF ok THEN [state |-> "sent", gmail |-> srvAuth] ELSE NoReset
        /\ UNCHANGED <<compVars, homeVars, syncFailures>>

\* resetInbox: api.getEmails() resolves or rejects; `finally` clears isLoading
ResetInboxDone ==
    \E ok \in BOOLEAN :
        /\ pcReset = "get"
        /\ pcReset' = "idle"
        /\ IF ok
           THEN /\ allEmails' = srv
                /\ emails' = filterEmailsForDisplay(srv, gmailStatus)
                /\ selectedEmailId' = NoId
           ELSE UNCHANGED <<allEmails, emails, selectedEmailId>>
        /\ isLoading' = FALSE
        /\ UNCHANGED <<gmailStatus, selectedThreadEmails, isSyncingGmail>>
        /\ UNCHANGED <<runs, ops, pcFetch, pcLoad, pcLogout, pcSync,
                       logoutStatus, syncEmails, netTasks, taskOps>>
        /\ UNCHANGED <<srvVars, afterLogout>>
        /\ afterReset' = IF ok /\ afterReset.state = "sent"
                         THEN [afterReset EXCEPT !.state = "done"]
                         ELSE NoReset
        /\ UNCHANGED <<compVars, homeVars, syncFailures>>

\* loadOAuthEmails up to its await
loadOAuthEmails ==
    /\ pcLoad = "idle"
    /\ pcLoad' = "load"
    /\ isLoading' = TRUE
    /\ UNCHANGED <<emails, allEmails, gmailStatus, selectedEmailId,
                   selectedThreadEmails, isSyncingGmail>>
    /\ UNCHANGED <<runs, pcFetch, pcReset, pcLogout, pcSync,
                   logoutStatus, syncEmails, netTasks, taskOps>>
    /\ UNCHANGED <<srvVars, afterLogout>>
    /\ ops < MaxOps
    /\ ops' = ops + 1
    /\ UNCHANGED uiVars

\* POST /oauth/load answers with the stored list, or the request fails
LoadOAuthEmailsDone ==
    \E ok \in BOOLEAN :
        /\ pcLoad = "load"
        /\ pcLoad' = "idle"
        /\ IF ok
           THEN /\ allEmails' = srv
                /\ emails' = filterEmailsForDisplay(srv, gmailStatus)
           ELSE UNCHANGED <<allEmails, emails>>
        /\ isLoading' = FALSE
        /\ UNCHANGED <<gmailStatus, selectedEmailId, selectedThreadEmails,
                       isSyncingGmail>>
        /\ UNCHANGED <<runs, ops, pcFetch, pcReset, pcLogout, pcSync,
                       logoutStatus, syncEmails, netTasks, taskOps>>
        /\ UNCHANGED <<srvVars, afterLogout>>
        /\ UNCHANGED uiVars

\* fetchGmailStatus: GET /gmail/status resolved (a rejection changes nothing)
fetchGmailStatus ==
    /\ gmailStatus' = StatusOf(srvAuth)
    /\ emails' = filterEmailsForDisplay(allEmails, StatusOf(srvAuth))
    /\ afterLogout' = (afterLogout /\ ~srvAuth)
    /\ UNCHANGED <<allEmails, selectedEmailId, selectedThreadEmails, isLoading,
                   isSyncingGmail>>
    /\ UNCHANGED <<opState, srvVars>>
    /\ ops < MaxOps
    /\ ops' = ops + 1
    /\ UNCHANGED uiVars

\* the OAuth popup completes: the backend stores a Gmail credential
GmailConnect ==
    /\ ~srvAuth
    /\ srvAuth' = TRUE
    /\ UNCHANGED <<storeVars, opState, srv, afterLogout>>
    /\ ops < MaxOps
    /\ ops' = ops + 1
    /\ UNCHANGED uiVars

\* Disconnect button -> handleDisconnectGmail -> logoutGmail, up to its await
logoutGmail ==
    /\ pcLogout = "idle"
    /\ gmailStatus.known /\ gmailStatus.authenticated
    /\ pcLogout' = "logout"
    /\ UNCHANGED <<storeVars, srvVars, afterLogout>>
    /\ UNCHANGED <<runs, pcFetch, pcReset, pcLoad, pcSync,
                   logoutStatus, syncEmails, netTasks, taskOps>>
    /\ ops < MaxOps
    /\ ops' = ops + 1
    /\ UNCHANGED uiVars

\* POST /gmail/logout answers: the credential is gone, the remote corpus's
\* ingestion state is purged, and the new status is returned
LogoutGmailLogout ==
    /\ pcLogout = "logout"
    /\ srvAuth' = FALSE
    /\ srv' = SrvReset(srv, TRUE)
    /\ logoutStatus' = StatusOf(FALSE)
    /\ pcLogout' = "get"
    /\ UNCHANGED <<storeVars, afterLogout>>
    /\ UNCHANGED <<runs, ops, pcFetch, pcReset, pcLoad, pcSync,
                   syncEmails, netTasks, taskOps>>
    /\ UNCHANGED uiVars

\* logoutGmail: api.getEmails() resolves and the store is set; then the rest
\* of handleDisconnectGmail: the two localStorage.removeItem calls
LogoutGmailDone ==
    /\ pcLogout = "get"
    /\ pcLogout' = "idle"
    /\ gmailStatus' = logoutStatus
    /\ allEmails' = srv
    /\ emails' = filterEmailsForDisplay(srv, logoutStatus)
    /\ selectedEmailId' = NoId
    /\ afterLogout' = ~logoutStatus.authenticated
    /\ logoutStatus' = NoStatus
    /\ lsAgent' = NoItem
    /\ lsChat' = NoItem
    /\ oldKeys' = {k \in DOMAIN history : history[k] # <<>>}
    /\ oldChat' = (messages # <<>>)
    /\ UNCHANGED <<selectedThreadEmails, isLoading, isSyncingGmail>>
    /\ UNCHANGED <<runs, ops, pcFetch, pcReset, pcLoad, pcSync,
                   syncEmails, netTasks, taskOps>>
    /\ UNCHANGED srvVars
    /\ UNCHANGED <<history, agentLoading, agentReqs, agentSends>>
    /\ UNCHANGED <<messages, chatLoading, chatReqs, chatSends>>
    /\ UNCHANGED <<inboxVars, ragVars, chatLog, draftVars, homeVars, ghostVars>>

\* a request of logoutGmail fails: it rejects before its set()
LogoutGmailFails ==
    /\ pcLogout \in {"logout", "get"}
    /\ pcLogout' = "idle"
    /\ logoutStatus' = NoStatus
    /\ UNCHANGED <<storeVars, srvVars, afterLogout>>
    /\ UNCHANGED <<runs, ops, pcFetch, pcReset, pcLoad, pcSync,
                   syncEmails, netTasks, taskOps>>
    /\ UNCHANGED uiVars

\* Sync Inbox button (shown when authenticated, disabled while syncing)
manualGmailSync ==
    /\ pcSync \in {"idle", "rejected"}
    /\ gmailStatus.known /\ gmailStatus.authenticated
    /\ ~isSyncingGmail
    /\ pcSync' = "sync"
    /\ isSyncingGmail' = TRUE
    /\ UNCHANGED <<emails, allEmails, gmailStatus, selectedEmailId,
                   selectedThreadEmails, isLoading>>
    /\ UNCHANGED <<runs, pcFetch, pcReset, pcLoad, pcLogout,
                   logoutStatus, syncEmails, netTasks, taskOps>>
    /\ UNCHANGED <<srvVars, afterLogout>>
    /\ ops < MaxOps
    /\ ops' = ops + 1
    /\ UNCHANGED uiVars

\* a full sync re-lists the remote mailbox into the Email Store
SrvSync(list) ==
    LET have == {list[i].id : i \in 1..Len(list)}
        keep == SelectSeq(Universe,
                    LAMBDA id : id \in have \/ IsGmailSource([id |-> id]))
    IN MapSeq(keep, LAMBDA id :
           IF id \in have
           THEN (CHOOSE e \in {list[i] : i \in 1..Len(list)} : e.id = id)
           ELSE FreshEmail(id))

\* POST /gmail/sync answers ok (the backend holds a credential)
ManualGmailSyncSynced ==
    /\ pcSync = "sync"
    /\ srvAuth
    /\ srv' = SrvSync(srv)
    /\ pcSync' = "emails"
    /\ UNCHANGED <<storeVars, srvAuth, afterLogout>>
    /\ UNCHANGED <<runs, ops, pcFetch, pcReset, pcLoad, pcLogout,
                   logoutStatus, syncEmails, netTasks, taskOps>>
    /\ UNCHANGED uiVars

\* manualGmailSync: GET /emails answers
ManualGmailSyncEmails ==
    /\ pcSync = "emails"
    /\ pcSync' = "status"
    /\ syncEmails' = srv
    /\ UNCHANGED <<storeVars, srvVars, afterLogout>>
    /\ UNCHANGED <<runs, ops, pcFetch, pcReset, pcLoad, pcLogout,
                   logoutStatus, netTasks, taskOps>>
    /\ UNCHANGED uiVars

\* manualGmailSync: GET /gmail/status answers and the store is set
ManualGmailSyncDone ==
    /\ pcSync = "status"
    /\ pcSync' = "idle"
    /\ allEmails' = syncEmails
    /\ emails' = filterEmailsForDisplay(syncEmails, StatusOf(srvAuth))
    /\ gmailStatus' = StatusOf(srvAuth)
    /\ afterLogout' = (afterLogout /\ ~srvAuth)
    /\ isSyncingGmail' = FALSE
    /\ syncEmails' = <<>>
    /\ UNCHANGED <<selectedEmailId, selectedThreadEmails, isLoading>>
    /\ UNCHANGED <<runs, ops, pcFetch, pcReset, pcLoad, pcLogout,
                   logoutStatus, netTasks, taskOps>>
    /\ UNCHANGED srvVars
    /\ UNCHANGED uiVars

\* why a POST /gmail/sync can fail: no credential on the backend (its distinct
\* status), another non-2xx status, a rejected fetch
SyncCauses == {"unauthenticated", "server_error", "network_error"}

\* the causes the backend state allows for the sync request
SyncCausesNow == IF srvAuth THEN SyncCauses \ {"unauthenticated"} ELSE {"unauthenticated"}

\* what the user gets from a failed sync: the alert of handleManualSync, or
\* only the console.error of handleAuthMessage
SyncAlert == "Connect Gmail before syncing."
SyncLogged == "console.error"

\* the catch blocks: neither looks at the error it caught
SyncOutcome(by, cause) == IF by = "button" THEN SyncAlert ELSE SyncLogged

\* a failed sync as syncFailures keeps it
SyncFailure(by, cause) == [cause |-> cause, by |-> by, outcome |-> SyncOutcome(by, cause)]

\* a failing manualGmailSync that stores the emails it has fetched by then
ManualGmailSyncFails_KeepsFetched ==
    \E cause \in SyncCauses :
        /\ pcSync \in {"sync", "emails", "status"}
        /\ pcSync = "sync" => cause \in SyncCausesNow
        /\ pcSync # "sync" => cause = "network_error"
        /\ syncFailures' = syncFailures \cup {SyncFailure("button", cause)}
        /\ UNCHANGED afterReset
        /\ pcSync' = "rejected"
        /\ isSyncingGmail' = FALSE
        /\ syncEmails' = <<>>
        /\ allEmails' = IF pcSync = "status" THEN syncEmails ELSE allEmails
        /\ emails' = IF pcSync = "status"
                     THEN filterEmailsForDisplay(syncEmails, gmailStatus) ELSE emails
        /\ UNCHANGED <<gmailStatus, selectedEmailId, selectedThreadEmails, isLoading>>
        /\ UNCHANGED <<runs, ops, pcFetch, pcReset, pcLoad, pcLogout,
                       logoutStatus, netTasks, taskOps>>
        /\ UNCHANGED <<srvVars, afterLogout>>
        /\ UNCHANGED <<compVars, homeVars>>

\* a request of manualGmailSync fails ("Sync failed", or a rejected fetch):
\* the promise is rejected, finally clears isSyncingGmail and the catch of
\* handleManualSync alerts
ManualGmailSyncFails ==
    \E cause \in SyncCauses :
        /\ pcSync \in {"sync", "emails", "status"}
        /\ pcSync = "sync" => cause \in SyncCausesNow
        /\ pcSync # "sync" => cause = "network_error"
        /\ syncFailures' = syncFailures \cup {SyncFailure("button", cause)}
        /\ UNCHANGED afterReset
        /\ pcSync' = "rejected"
        /\ isSyncingGmail' = FALSE
        /\ syncEmails' = <<>>
        /\ UNCHANGED <<emails, allEmails, gmailStatus, selectedEmailId,
                       selectedThreadEmails, isLoading>>
        /\ UNCHANGED <<runs, ops, pcFetch, pcReset, pcLoad, pcLogout,
                       logoutStatus, netTasks, taskOps>>
        /\ UNCHANGED <<srvVars, afterLogout>>
        /\ UNCHANGED <<compVars, homeVars>>

\* setSelectedEmailId(id) with a non-null id: the selection, the read flag in
\* both lists, and api.markAsRead(id) (taken as applied by the backend at once)
SetSelected_ShownOnly(id) ==
    LET updateList(list) ==
            MapSeq(list, LAMBDA e : IF e.id = id THEN [e EXCEPT !.read = TRUE] ELSE e)
    IN /\ selectedEmailId' = id
       /\ emails' = updateList(emails)
       /\ allEmails' = allEmails
       /\ srv' = updateList(srv)
SetSelected(id) ==
    LET updateList(list) ==
            MapSeq(list, LAMBDA e : IF e.id = id THEN [e EXCEPT !.read = TRUE] ELSE e)
    IN /\ selectedEmailId' = id
       /\ emails' = updateList(emails)
       /\ allEmails' = updateList(allEmails)
       /\ srv' = updateList(srv)

\* ActionItems "Go to source email": setSelectedEmailId(task.emailId)
setSelectedEmailId ==
    \E id \in {emails[i].id : i \in 1..Len(emails)} :
        /\ SetSelected(id)
        /\ UNCHANGED <<gmailStatus, selectedThreadEmails, isLoading, isSyncingGmail>>
        /\ UNCHANGED <<opState, srvAuth, afterLogout>>
        /\ ops < MaxOps
        /\ ops' = ops + 1
        /\ UNCHANGED uiVars

\* ------------------------------------------ action items: client and backend

\* the positions the Action Items view offers for an email (originalIndex)
TaskIndexes(id) ==
    UNION {IF emails[i].id = id THEN 0..(Len(emails[i].action_items) - 1) ELSE {}
           : i \in 1..Len(emails)}

\* toggleActionItem's updateList
ToggleList(list, emailId, taskIndex) ==
    MapSeq(list, LAMBDA e :
        IF e.id = emailId
        THEN LET items == e.action_items IN
             [e EXCEPT !.action_items =
                 [k \in 1..Len(items) |->
                     IF k - 1 = taskIndex
                     THEN [items[k] EXCEPT !.completed = ~items[k].completed]
                     ELSE items[k]]]
        ELSE e)

\* ActionItems' allTasks: every action item of every displayed email, with the
\* email's id and the item's index in that email's list
allTasks ==
    UNION {{[emailId |-> emails[i].id, originalIndex |-> k - 1,
             item |-> emails[i].action_items[k]]
            : k \in 1..Len(emails[i].action_items)}
           : i \in 1..Len(emails)}

\* deleteActionItem's updateList, had it removed the head of the list (shift)
\* whatever the index
DeleteList_Shift(list, emailId, taskIndex) ==
    MapSeq(list, LAMBDA e :
        IF e.id = emailId /\ taskIndex \in 0..(Len(e.action_items) - 1)
        THEN [e EXCEPT !.action_items = RemoveAt(@, 1)]
        ELSE e)

\* deleteActionItem's updateList: filter((_, idx) => idx !== taskIndex)
DeleteList(list, emailId, taskIndex) ==
    MapSeq(list, LAMBDA e :
        IF e.id = emailId /\ taskIndex \in 0..(Len(e.action_items) - 1)
        THEN [e EXCEPT !.action_items = RemoveAt(@, taskIndex + 1)]
        ELSE e)

toggleActionItem ==
    \E i \in 1..Len(emails) :
        \E taskIndex \in TaskIndexes(emails[i].id) :
            /\ taskOps < MaxTaskOps
            /\ emails' = ToggleList(emails, emails[i].id, taskIndex)
            /\ allEmails' = ToggleList(allEmails, emails[i].id, taskIndex)
            /\ netTasks' = Append(netTasks,
                    [op |-> "toggle", id |-> emails[i].id, idx |-> taskIndex])
            /\ taskOps' = taskOps + 1
            /\ UNCHANGED <<gmailStatus, selectedEmailId, selectedThreadEmails,
                           isLoading, isSyncingGmail>>
            /\ UNCHANGED <<runs, pcFetch, pcReset, pcLoad, pcLogout,
                           pcSync, logoutStatus, syncEmails>>
            /\ UNCHANGED <<srvVars, afterLogout>>
            /\ ops < MaxOps
            /\ ops' = ops + 1
            /\ UNCHANGED uiVars

deleteActionItem ==
    \E i \in 1..Len(emails) :
        \E taskIndex \in TaskIndexes(emails[i].id) :
            /\ taskOps < MaxTaskOps
            /\ emails' = DeleteList(emails, emails[i].id, taskIndex)
            /\ allEmails' = DeleteList(allEmails, emails[i].id, taskIndex)
            /\ netTasks' = Append(netTasks,
                    [op |-> "delete", id |-> emails[i].id, idx |-> taskIndex])
            /\ taskOps' = taskOps + 1
            /\ UNCHANGED <<gmailStatus, selectedEmailId, selectedThreadEmails,
                           isLoading, isSyncingGmail>>
            /\ UNCHANGED <<runs, pcFetch, pcReset, pcLoad, pcLogout,
                           pcSync, logoutStatus, syncEmails>>
            /\ UNCHANGED <<srvVars, afterLogout>>
            /\ ops < MaxOps
            /\ ops' = ops + 1
            /\ UNCHANGED uiVars

\* the backend's toggle / delete by index: a read-modify-write of the list;
\* an index outside the list changes nothing
SrvApplyTask(list, req) ==
    IF req.op = "toggle" THEN ToggleList(list, req.id, req.idx)
    ELSE DeleteList(list, req.id, req.idx)

\* the backend processes one of the requests in flight, whichever arrives first
SrvTask ==
    \E k \in 1..Len(netTasks) :
        /\ srv' = SrvApplyTask(srv, netTasks[k])
        /\ netTasks' = RemoveAt(netTasks, k)
        /\ UNCHANGED <<storeVars, srvAuth, afterLogout>>
        /\ UNCHANGED <<runs, ops, pcFetch, pcReset, pcLoad, pcLogout,
                       pcSync, logoutStatus, syncEmails, taskOps>>
        /\ UNCHANGED uiVars

\* clearIndexes: POST /emails/clear answered; the lists are emptied
clearIndexes ==
    /\ srv' = <<>>
    /\ emails' = <<>>
    /\ allEmails' = <<>>
    /\ selectedEmailId' = NoId
    /\ UNCHANGED <<gmailStatus, selectedThreadEmails, isLoading, isSyncingGmail>>
    /\ UNCHANGED <<opState, srvAuth, afterLogout>>
    /\ ops < MaxOps
    /\ ops' = ops + 1
    /\ UNCHANGED uiVars


\* ------------------------------------------------------- the store's system

\* DraftEditor: draft is null
NoDraft == "<null>"

\* the two components with a Send button and a handleSend of their own
Composers == {"ComposePage", "GmailComposer"}

NoSession == [sessionId |-> NoId, messages |-> <<>>]

\* the UI components as mounted with nothing in localStorage: their
\* persistence effects have written the empty histories
InitUi ==
    /\ expandedThreads = {}
    /\ clicks = 0
    /\ history = <<>>
    /\ agentLoading = FALSE
    /\ agentReqs = <<>>
    /\ agentSends = 0
    /\ messages = <<>>
    /\ chatLoading = FALSE
    /\ chatReqs = <<>>
    /\ chatSends = 0
    /\ session = NoSession
    /\ ragLoading = FALSE
    /\ ragError = NoId
    /\ ragReqs = <<>>
    /\ ragSends = 0
    /\ ragSessions = 0
    /\ chatLog = <<>>
    /\ ragLog = <<>>
    /\ ragCleared = FALSE
    /\ lsAgent = Item(<<>>)
    /\ lsChat = Item(<<>>)
    /\ oldKeys = {}
    /\ oldChat = FALSE
    /\ pcAuth = "idle"
    /\ authEmails = <<>>
    /\ activeTab = "inbox"
    /\ showDraftEditor = FALSE
    /\ draft = NoDraft
    /\ draftLoading = FALSE
    /\ isSending = [c \in Composers |-> FALSE]
    /\ composeError = [c \in Composers |-> FALSE]
    /\ calls = <<>>
    /\ outbox = {}
    /\ draftOps = 0
    /\ reqLog = <<>>
    /\ syncFailures = {}
    /\ afterReset = NoReset

InitOps ==
    /\ runs = <<>>
    /\ ops = 0
    /\ pcFetch = "idle"
    /\ pcReset = "idle"
    /\ pcLoad = "idle"
    /\ pcLogout = "idle"
    /\ pcSync = "idle"
    /\ logoutStatus = NoStatus
    /\ syncEmails = <<>>
    /\ netTasks = <<>>
    /\ taskOps = 0

\* create<AppState>(...): the store as constructed; the backend holds the
\* unprocessed emails of both corpora and may or may not hold a credential
Init ==
    /\ emails = <<>>
    /\ allEmails = <<>>
    /\ gmailStatus = NoStatus
    /\ selectedEmailId = NoId
    /\ selectedThreadEmails = <<>>
    /\ isLoading = FALSE
    /\ isSyncingGmail = FALSE
    /\ InitOps
    /\ srv = MapSeq(Universe, FreshEmail)
    /\ srvAuth \in BOOLEAN
    /\ afterLogout = FALSE
    /\ InitUi

NextStore ==
    \/ ingestEmails \/ IngestResponse \/ IngestRead \/ IngestDone
    \/ IngestRefreshError \/ IngestRefreshComplete \/ IngestRefreshFails
    \/ fetchEmails \/ FetchEmailsDone
    \/ resetInbox \/ ResetInboxReset \/ ResetInboxDone
    \/ loadOAuthEmails \/ LoadOAuthEmailsDone
    \/ fetchGmailStatus \/ GmailConnect
    \/ logoutGmail \/ LogoutGmailLogout \/ LogoutGmailDone \/ LogoutGmailFails
    \/ manualGmailSync \/ ManualGmailSyncSynced \/ ManualGmailSyncEmails
    \/ ManualGmailSyncDone \/ ManualGmailSyncFails
    \/ setSelectedEmailId \/ toggleActionItem \/ deleteActionItem \/ SrvTask
    \/ clearIndexes

SpecStore == Init /\ [][NextStore]_vars


\* ------------------------------------------------- properties of the store

ShownIds == {emails[i].id : i \in 1..Len(emails)}
ShowsGmail == \E i \in 1..Len(emails) : IsGmailSource(emails[i])
ShowsOther == \E i \in 1..Len(emails) : ~IsGmailSource(emails[i])

\* C1: at most one ingestEmails call started from the Run Ingestion button is
\* in flight (its POST sent, its stream not yet read to the end) at any time.
C1_SingleIngestionInFlight == Len(runs) <= 1

\* C2: an error event is terminal for the run that receives it: no category or
\* action_items event that follows an error event in the same stream is applied.
C2_ErrorEventIsTerminal ==
    \A i \in 1..Len(runs) : ~runs[i].lateApply

\* C3: a run whose stream delivered an error event has shown exactly one alert,
\* and the alert carries the raw message of an error event of that stream.
C3_ErrorMessageShown ==
    \A i \in 1..Len(runs) :
        runs[i].errSeen # {} =>
            /\ Len(runs[i].alerts) = 1
            /\ runs[i].alerts[1] \in runs[i].errSeen

\* C5: from the completion of logoutGmail with an unauthenticated status until
\* an authenticated status is stored, the displayed list holds no email whose
\* source is gmail or gmail_draft.
C5_NoGmailShownAfterLogout == afterLogout => ~ShowsGmail

LoadedItems == <<Task("reply", FALSE), Task("book room", FALSE), Task("send report", TRUE)>>
LoadedList ==
    MapSeq(Universe, LAMBDA id :
        IF id = "g1" THEN [FreshEmail(id) EXCEPT !.action_items = LoadedItems,
                                                 !.category = "Work"]
        ELSE FreshEmail(id))

InitTasks ==
    /\ allEmails = LoadedList
    /\ emails = filterEmailsForDisplay(LoadedList, StatusOf(TRUE))
    /\ gmailStatus = StatusOf(TRUE)
    /\ selectedEmailId = NoId
    /\ selectedThreadEmails = <<>>
    /\ isLoading = FALSE
    /\ isSyncingGmail = FALSE
    /\ InitOps
    /\ srv = LoadedList
    /\ srvAuth = TRUE
    /\ afterLogout = FALSE
    /\ InitUi

NextTasks == toggleActionItem \/ deleteActionItem \/ SrvTask

SpecTasks == InitTasks /\ [][NextTasks]_vars

ItemsOf(list, id) ==
    LET hit == SelectSeq(list, LAMBDA e : e.id = id)
    IN IF hit = <<>> THEN <<>> ELSE hit[1].action_items

\* C4: once the backend has processed every toggle / delete request the client
\* sent, in whatever order they arrived, its action_items list of each email
\* equals the client's list (same items, same order, same completed flags).
C4_NoLostUpdate ==
    netTasks = <<>> =>
        \A i \in 1..Len(allEmails) :
            ItemsOf(srv, allEmails[i].id) = allEmails[i].action_items


\* deleteActionItem(emailId, i) on one list: the email emailId loses exactly the
\* item at index i, the items after it move down by one, nothing else changes;
\* an index outside the list changes nothing
DeleteCompacts(list, emailId, i) ==
    LET out == DeleteList(list, emailId, i)
    IN /\ Len(out) = Len(list)
       /\ \A k \in 1..Len(list) :
              LET old == list[k].action_items
                  new == out[k].action_items
              IN IF list[k].id = emailId /\ i \in 0..(Len(old) - 1)
                 THEN /\ Len(new) = Len(old) - 1
                      /\ \A j \in 1..Len(new) :
                             new[j] = IF j - 1 < i THEN old[j] ELSE old[j + 1]
                      /\ [out[k] EXCEPT !.action_items = old] = list[k]
                 ELSE out[k] = list[k]

\* the arguments deleteActionItem is tried with: every email id and one
\* unknown id, every index of the longest list and one either side
DeleteIds == Range(Universe) \cup {"x9"}
DeleteIndexes == (0 - 1)..Len(LoadedItems)

\* C17: deleteActionItem(emailId, i) with 0 <= i < length removes exactly the
\* item at index i of that email's action_items in emails and in allEmails,
\* keeps the order of the remaining items and leaves every other email
\* unchanged; with i out of range the lists are unchanged. The index the
\* ActionItems view holds for an item is the item's position in the store's
\* list, and these indexes are the ones the delete button sends.
C17_DeleteCompactsByPosition ==
    /\ \A id \in DeleteIds : \A i \in DeleteIndexes :
           DeleteCompacts(emails, id, i) /\ DeleteCompacts(allEmails, id, i)
    /\ \A task \in allTasks :
           /\ task.originalIndex \in TaskIndexes(task.emailId)
           /\ ItemsOf(emails, task.emailId)[task.originalIndex + 1] = task.item
    /\ \A id \in DeleteIds :
           TaskIndexes(id) = {task.originalIndex : task \in {t \in allTasks : t.emailId = id}}

\* the client deleted the item at index 0 and then the item that had moved
\* down to index 0: the last of the three is left
C17_Witness ==
    /\ ItemsOf(emails, "g1") = <<LoadedItems[3]>>
    /\ ItemsOf(allEmails, "g1") = <<LoadedItems[3]>>
    /\ \E k \in 1..Len(netTasks) : netTasks[k].op = "delete"


\* ------------------------------------------------------------ InboxViewer

IsSpace(c) == c = " "

\* String.prototype.toLowerCase, per character
LowerChar(c) ==
    CASE c = "H" -> "h" [] c = "R" -> "r" [] c = "E" -> "e" [] c = "F" -> "f"
      [] c = "W" -> "w" [] c = "D" -> "d" [] c = "L" -> "l" [] OTHER -> c

LowerStr(str) == [i \in 1..Len(str) |-> LowerChar(str[i])]

StartsWithCI(str, word) ==
    /\ Len(str) >= Len(word)
    /\ \A i \in 1..Len(word) : LowerChar(str[i]) = word[i]

\* the length of the match of /^(re|fwd|fw):\s*/i at the start of str, 0 if none
PrefixMatch(str) ==
    LET head == IF StartsWithCI(str, <<"r", "e", ":">>) THEN 3
                ELSE IF StartsWithCI(str, <<"f", "w", "d", ":">>) THEN 4
                ELSE IF StartsWithCI(str, <<"f", "w", ":">>) THEN 3
                ELSE 0
        spaces == IF head = 0 THEN 0
                  ELSE Cardinality({k \in (head + 1)..Len(str) :
                           \A j \in (head + 1)..k : IsSpace(str[j])})
    IN head + spaces

\* String.prototype.trim
Trim(str) ==
    LET solid == {i \in 1..Len(str) : ~IsSpace(str[i])}
    IN IF solid = {} THEN <<>>
       ELSE LET lo == CHOOSE i \in solid : \A j \in solid : i <= j
                hi == CHOOSE i \in solid : \A j \in solid : i >= j
            IN SubSeq(str, lo, hi)

\* subject.replace(/^(re|fwd|fw):\s*/gi, '').trim().toLowerCase(): the pattern is
\* anchored, so the replace removes one leading prefix
normalizeSubject(subject) ==
    LowerStr(Trim(SubSeq(subject, PrefixMatch(subject) + 1, Len(subject))))

\* the folder filter of the inbox tab with the sub filter "all"; the categories
\* in use hold "spam", "draft" or "sent" only as the whole word
MatchesInbox(e) ==
    LET lower == CASE e.category = "Spam" -> "spam" [] e.category = "Draft" -> "draft"
                   [] e.category = "Sent" -> "sent" [] OTHER -> e.category
    IN lower \notin {"spam", "draft", "sent"}

filteredEmails == SelectSeq(emails, MatchesInbox)

\* Array.prototype.sort with (a, b) => key(b) - key(a): stable, descending
\* Array.prototype.sort with (a, b) => getTime(b) - getTime(a): b - a is NaN
\* when either date is invalid, and sort takes a NaN result as 0 (the two
\* stay in their order); the result is defined where that comparator is
\* consistent, which the lists in use are
SortDateDesc(list, Key(_)) ==
    LET Before(j, i) ==
            \/ DateGt(Key(list[j]), Key(list[i]))
            \/ /\ ~DateGt(Key(list[i]), Key(list[j]))
               /\ j < i
        Rank(i) == 1 + Cardinality({j \in 1..Len(list) : j # i /\ Before(j, i)})
    IN [r \in 1..Len(list) |-> list[CHOOSE i \in 1..Len(list) : Rank(i) = r]]

SortDesc(list, Key(_)) ==
    LET Rank(i) == 1 + Cardinality({j \in 1..Len(list) :
                         \/ Key(list[j]) > Key(list[i])
                         \/ Key(list[j]) = Key(list[i]) /\ j < i})
    IN [r \in 1..Len(list) |-> list[CHOOSE i \in 1..Len(list) : Rank(i) = r]]

\* the keys of threadMap in insertion order
RECURSIVE ThreadKeys(_)
ThreadKeys(list) ==
    IF list = <<>> THEN <<>>
    ELSE LET before == ThreadKeys(SubSeq(list, 1, Len(list) - 1))
             key == normalizeSubject(SubjectOf(list[Len(list)].id))
         IN IF \E i \in 1..Len(before) : before[i] = key THEN before
            ELSE Append(before, key)

\* thread.latestTimestamp as the forEach computes it
RECURSIVE LatestTimestamp(_)
LatestTimestamp(members) ==
    IF Len(members) = 1 THEN TimestampOf(members[1].id)
    ELSE LET prev == LatestTimestamp(SubSeq(members, 1, Len(members) - 1))
             t == TimestampOf(members[Len(members)].id)
         IN IF DateGt(t, prev) THEN t ELSE prev

\* the EmailThread of one normalized subject
ThreadOf(list, key) ==
    LET members == SelectSeq(list, LAMBDA e : normalizeSubject(SubjectOf(e.id)) = key)
    IN [id |-> key,
        emails |-> SortDateDesc(members, LAMBDA e : TimestampOf(e.id)),
        latestTimestamp |-> LatestTimestamp(members)]

\* threads: grouped by normalized subject, each sorted, then sorted by latest
threads ==
    SortDateDesc(MapSeq(ThreadKeys(filteredEmails), LAMBDA k : ThreadOf(filteredEmails, k)),
                 LAMBDA t : t.latestTimestamp)

\* the emails of a thread the list renders (displayEmails)
DisplayEmails(thread) ==
    IF Len(thread.emails) = 1 THEN thread.emails
    ELSE IF thread.id \in expandedThreads THEN thread.emails
    ELSE <<thread.emails[1]>>

\* the chevron of a thread header
toggleThread ==
    \E thread \in Range(threads) :
        /\ Len(thread.emails) > 1
        /\ clicks < MaxClicks
        /\ clicks' = clicks + 1
        /\ expandedThreads' =
               IF thread.id \in expandedThreads
               THEN expandedThreads \ {thread.id}
               ELSE expandedThreads \cup {thread.id}
        /\ UNCHANGED <<storeVars, opVars, srvVars, afterLogout, homeVars, ghostVars, draftVars>>
        /\ UNCHANGED <<agentVars, chatVars, ragVars, chatLog>>

\* the context handleEmailClick gives the agent: the expansion state to be
SelectedContext(email, thread, isAlreadySelected, isCurrentlyExpanded) ==
    IF Len(thread.emails) > 1
    THEN LET willBeExpanded == IF isAlreadySelected THEN ~isCurrentlyExpanded ELSE TRUE
         IN IF willBeExpanded THEN <<email>> ELSE thread.emails
    ELSE <<email>>

handleEmailClick ==
    \E thread \in Range(threads) :
        \E email \in Range(DisplayEmails(thread)) :
            LET isCurrentlyExpanded == thread.id \in expandedThreads
                isAlreadySelected == selectedEmailId = email.id
            IN /\ clicks < MaxClicks
               /\ clicks' = clicks + 1
               /\ SetSelected(email.id)
               /\ expandedThreads' =
                      IF Len(thread.emails) > 1
                      THEN IF isAlreadySelected /\ isCurrentlyExpanded
                           THEN expandedThreads \ {thread.id}
                           ELSE expandedThreads \cup {thread.id}
                      ELSE expandedThreads
               /\ selectedThreadEmails' =
                      SelectedContext(email, thread, isAlreadySelected, isCurrentlyExpanded)
               /\ UNCHANGED <<gmailStatus, isLoading, isSyncingGmail>>
               /\ UNCHANGED <<opVars, srvAuth, afterLogout, homeVars, ghostVars, draftVars>>
               /\ UNCHANGED <<agentVars, chatVars, ragVars, chatLog>>


\* ------------------------------------------------ api.chat, AgentChat, Chat


Undefined == "<undefined>"
AgentFallback == "Sorry, I encountered an error."
ChatFallback == "Sorry, I encountered an error. Please try again."
AnswerText == "answer"

\* how a POST /chat can end: a 2xx with {response}, a rejected fetch, a non-2xx
\* status with a JSON body such as {detail}, a non-2xx status with a non-JSON body
ChatOutcomes == {"ok", "network_error", "http_error_json", "http_error_text"}

\* api.chat: fetch, then res.json() whatever the status; TRUE when it rejects
ApiChatRejects(outcome) == outcome \in {"network_error", "http_error_text"}

\* the response field of what api.chat resolves with
ApiChatResponse(outcome) == IF outcome = "ok" THEN AnswerText ELSE Undefined

\* Array.prototype.sort() of ids: by code unit, "d1" < "g1" < "g2" < "m1"
SortedIds(list) == MapSeq(SortDesc(list, LAMBDA e : 0 - IdRank(e.id)), LAMBDA e : e.id)

NoKey == [kind |-> "null", ids |-> <<>>]

\* the chat key: "thread:" and the sorted ids, or "email:" and the selected id
chatKey ==
    IF selectedEmailId = NoId THEN NoKey
    ELSE IF Len(selectedThreadEmails) > 1
         THEN [kind |-> "thread", ids |-> SortedIds(selectedThreadEmails)]
         ELSE [kind |-> "email", ids |-> <<selectedEmailId>>]

\* a chat message; of is the conversation of the send it belongs to
Message(role, content, key) == [role |-> role, content |-> content, of |-> key]

\* {...h, [key]: list}
WithKey(h, key, list) ==
    [k \in DOMAIN h \cup {key} |-> IF k = key THEN list ELSE h[k]]

\* (h[key] || [])
ListOf(h, key) == IF key \in DOMAIN h THEN h[key] ELSE <<>>

\* the key a settled request files its reply under: the one handleSend closed over
ReplyKey_Current(req) == chatKey
ReplyKey(req) == req.chatKey

\* AgentChat.handleSend up to the await of api.chat
handleSend ==
    /\ selectedEmailId # NoId
    /\ chatKey # NoKey
    /\ agentSends + chatSends < MaxSends
    /\ LET greeting == Message("agent", "greeting", chatKey)
           base == IF chatKey \in DOMAIN history THEN history[chatKey] ELSE <<greeting>>
           threadEmailIds == IF Len(selectedThreadEmails) > 1
                             THEN MapSeq(selectedThreadEmails, LAMBDA e : e.id)
                             ELSE <<>>
       IN /\ history' = WithKey(history, chatKey,
                                Append(base, Message("user", "question", chatKey)))
          /\ agentReqs' = Append(agentReqs, [chatKey |-> chatKey,
                                             emailId |-> selectedEmailId,
                                             threadEmailIds |-> threadEmailIds])
    /\ agentLoading' = TRUE
    /\ agentSends' = agentSends + 1
    /\ lsAgent' = Item(history')
    /\ UNCHANGED oldKeys
    /\ UNCHANGED <<storeVars, opVars, srvVars, afterLogout, homeVars, ghostVars, draftVars>>
    /\ UNCHANGED <<inboxVars, chatVars, ragVars, chatLog>>

\* AgentChat.handleSend from the settling of api.chat on
HandleSendSettle ==
    \E i \in 1..Len(agentReqs), outcome \in ChatOutcomes :
        LET req == agentReqs[i]
            content == IF ApiChatRejects(outcome) THEN AgentFallback
                       ELSE ApiChatResponse(outcome)
        IN /\ history' = WithKey(history, ReplyKey(req),
                                 Append(ListOf(history, ReplyKey(req)),
                                        Message("agent", content, req.chatKey)))
           /\ agentReqs' = RemoveAt(agentReqs, i)
           /\ agentLoading' = FALSE
           /\ lsAgent' = Item(history')
           /\ UNCHANGED oldKeys
           /\ chatLog' = <<[who |-> "AgentChat", outcome |-> outcome,
                              content |-> content]>>
           /\ UNCHANGED agentSends
           /\ UNCHANGED <<storeVars, opVars, srvVars, afterLogout, homeVars, ghostVars, draftVars>>
           /\ UNCHANGED <<inboxVars, chatVars, ragVars>>

\* AgentChat.handleReset
handleReset ==
    /\ chatKey # NoKey
    /\ clicks < MaxClicks
    /\ clicks' = clicks + 1
    /\ history' = WithKey(history, chatKey, <<Message("agent", "reset", chatKey)>>)
    /\ lsAgent' = Item(history')
    /\ oldKeys' = oldKeys \ {chatKey}
    /\ UNCHANGED <<agentLoading, agentReqs, agentSends>>
    /\ UNCHANGED <<storeVars, opVars, srvVars, afterLogout, homeVars, ghostVars, draftVars>>
    /\ UNCHANGED <<expandedThreads, chatVars, ragVars, chatLog>>

\* Chat.handleSend up to the await of api.chat
ChatHandleSend ==
    /\ ~chatLoading
    /\ agentSends + chatSends < MaxSends
    /\ messages' = Append(messages, [role |-> "user", content |-> "question"])
    /\ chatLoading' = TRUE
    /\ chatReqs' = Append(chatReqs, [message |-> "question"])
    /\ lsChat' = Item(messages')
    /\ UNCHANGED oldChat
    /\ chatSends' = chatSends + 1
    /\ UNCHANGED <<storeVars, opVars, srvVars, afterLogout, homeVars, ghostVars, draftVars>>
    /\ UNCHANGED <<inboxVars, agentVars, ragVars, chatLog>>

\* Chat.handleSend from the settling of api.chat on
ChatHandleSendSettle ==
    \E i \in 1..Len(chatReqs), outcome \in ChatOutcomes :
        LET content == IF ApiChatRejects(outcome) THEN ChatFallback
                       ELSE ApiChatResponse(outcome)
        IN /\ messages' = Append(messages, [role |-> "assistant", content |-> content])
           /\ chatReqs' = RemoveAt(chatReqs, i)
           /\ chatLoading' = FALSE
           /\ lsChat' = Item(messages')
           /\ UNCHANGED oldChat
           /\ chatLog' = <<[who |-> "Chat", outcome |-> outcome,
                              content |-> content]>>
           /\ UNCHANGED chatSends
           /\ UNCHANGED <<storeVars, opVars, srvVars, afterLogout, homeVars, ghostVars, draftVars>>
           /\ UNCHANGED <<inboxVars, agentVars, ragVars>>

\* Chat.handleReset, confirmed
ChatHandleReset ==
    /\ messages # <<>>
    /\ messages' = <<>>
    /\ lsChat' = Item(messages')
    /\ oldChat' = FALSE
    /\ UNCHANGED <<chatLoading, chatReqs, chatSends>>
    /\ UNCHANGED <<storeVars, opVars, srvVars, afterLogout, homeVars, ghostVars, draftVars>>
    /\ UNCHANGED <<inboxVars, agentVars, ragVars, chatLog>>

\* the gmail inbox loaded, nothing selected
InitChat ==
    /\ InitUi
    /\ InitOps
    /\ srvAuth = TRUE
    /\ srv = MapSeq(Universe, FreshEmail)
    /\ allEmails = srv
    /\ gmailStatus = StatusOf(TRUE)
    /\ emails = filterEmailsForDisplay(allEmails, gmailStatus)
    /\ selectedEmailId = NoId
    /\ selectedThreadEmails = <<>>
    /\ isLoading = FALSE
    /\ isSyncingGmail = FALSE
    /\ afterLogout = FALSE

NextChat ==
    \/ handleEmailClick
    \/ toggleThread
    \/ handleSend
    \/ HandleSendSettle
    \/ handleReset
    \/ ChatHandleSend
    \/ ChatHandleSendSettle
    \/ ChatHandleReset

SpecChat == InitChat /\ [][NextChat]_vars


\* C7: whenever AgentChat sends thread_email_ids with a chat request, all the
\* emails the list names have the same thread_id.
C7_ThreadIdsShareThreadId ==
    \A i \in 1..Len(agentReqs) :
        \A a, b \in {agentReqs[i].threadEmailIds[k] :
                         k \in 1..Len(agentReqs[i].threadEmailIds)} :
            ThreadIdOf(a) = ThreadIdOf(b)

\* C8: every chat send of Chat or AgentChat whose request fails ends with the
\* graceful fallback message appended, and no appended message has undefined
\* content.
C8_FailureEndsInFallback ==
    \A i \in 1..Len(chatLog) :
        /\ chatLog[i].content # Undefined
        /\ chatLog[i].outcome # "ok" =>
               chatLog[i].content = IF chatLog[i].who = "Chat" THEN ChatFallback
                                    ELSE AgentFallback

\* C10: conversation isolation in AgentChat: every message stored under
\* history[k] belongs to chat key k, so a reply that arrives after the
\* selection moved from A to B is in A's list and not in B's.
C10_ConversationIsolation ==
    \A k \in DOMAIN history :
        \A i \in 1..Len(history[k]) : history[k][i].of = k

\* a reply of conversation A has been filed while another conversation B is shown
C10_Witness ==
    /\ chatKey # NoKey
    /\ \E k \in DOMAIN history :
           /\ k # chatKey
           /\ Len(history[k]) >= 3
           /\ history[k][Len(history[k])].role = "agent"
           /\ history[k][Len(history[k])].of = k
           /\ agentReqs = <<>>
           /\ chatKey \in DOMAIN history


\* ------------------------------------------------------------- useRagChat

MaxRagSends == 3

\* the ids the backend gives to the sessions it creates, in order of creation
SessionIds == <<"s1", "s2", "s3", "s4", "s5">>

\* POST /chat on the backend: the session id given, or a new one if none
SrvSessionId(req) ==
    IF req.sessionId = NoId THEN SessionIds[ragSessions + 1] ELSE req.sessionId

\* sendMessage up to the await of fetch; session is the one of the render that
\* made the callback
sendMessage ==
    /\ ragSends < MaxRagSends
    /\ ragLoading' = TRUE
    /\ ragError' = NoId
    /\ session' = [session EXCEPT !.messages = Append(@, [role |-> "user"])]
    /\ ragReqs' = Append(ragReqs, [sessionId |-> session.sessionId])
    /\ ragLog' = Append(ragLog, session.sessionId)
    /\ ragCleared' = FALSE
    /\ ragSends' = ragSends + 1
    /\ UNCHANGED ragSessions
    /\ UNCHANGED <<storeVars, opVars, srvVars, afterLogout, homeVars, ghostVars, draftVars>>
    /\ UNCHANGED <<inboxVars, agentVars, chatVars, chatLog>>

\* sendMessage from a 2xx response on
SendMessageOk ==
    \E i \in 1..Len(ragReqs) :
        /\ session' = [sessionId |-> SrvSessionId(ragReqs[i]),
                       messages |-> Append(session.messages, [role |-> "assistant"])]
        /\ ragSessions' = IF ragReqs[i].sessionId = NoId THEN ragSessions + 1
                          ELSE ragSessions
        /\ ragReqs' = RemoveAt(ragReqs, i)
        /\ ragLoading' = FALSE
        /\ ragCleared' = FALSE
        /\ UNCHANGED <<ragError, ragSends, ragLog>>
        /\ UNCHANGED <<storeVars, opVars, srvVars, afterLogout, homeVars, ghostVars, draftVars>>
        /\ UNCHANGED <<inboxVars, agentVars, chatVars, chatLog>>

\* sendMessage from a rejected fetch or a non-2xx response on
SendMessageFails ==
    \E i \in 1..Len(ragReqs) :
        /\ ragError' = "error"
        /\ ragReqs' = RemoveAt(ragReqs, i)
        /\ ragLoading' = FALSE
        /\ ragCleared' = FALSE
        /\ UNCHANGED <<session, ragSends, ragSessions, ragLog>>
        /\ UNCHANGED <<storeVars, opVars, srvVars, afterLogout, homeVars, ghostVars, draftVars>>
        /\ UNCHANGED <<inboxVars, agentVars, chatVars, chatLog>>

\* clearSession with the DELETE answered (whatever its status): a new
\* conversation starts
clearSession ==
    /\ session.sessionId # NoId
    /\ session' = NoSession
    /\ ragLog' = <<>>
    /\ ragCleared' = TRUE
    /\ UNCHANGED <<ragLoading, ragError, ragReqs, ragSends, ragSessions>>
    /\ UNCHANGED <<storeVars, opVars, srvVars, afterLogout, homeVars, ghostVars, draftVars>>
    /\ UNCHANGED <<inboxVars, agentVars, chatVars, chatLog>>

\* clearSession with no session id stored: if (!session.sessionId) return
ClearSessionNoSession ==
    /\ session.sessionId = NoId
    /\ ragCleared' = TRUE
    /\ UNCHANGED <<session, ragLoading, ragError, ragReqs, ragSends, ragSessions, ragLog>>
    /\ UNCHANGED <<storeVars, opVars, srvVars, afterLogout, homeVars, ghostVars, draftVars>>
    /\ UNCHANGED <<inboxVars, agentVars, chatVars, chatLog>>

\* clearSession with the DELETE fetch rejected: the catch logs and returns
ClearSessionFails ==
    /\ session.sessionId # NoId
    /\ ragCleared' = TRUE
    /\ UNCHANGED <<session, ragLoading, ragError, ragReqs, ragSends, ragSessions, ragLog>>
    /\ UNCHANGED <<storeVars, opVars, srvVars, afterLogout, homeVars, ghostVars, draftVars>>
    /\ UNCHANGED <<inboxVars, agentVars, chatVars, chatLog>>

NextRag ==
    \/ sendMessage \/ SendMessageOk \/ SendMessageFails
    \/ clearSession \/ ClearSessionNoSession \/ ClearSessionFails

SpecRag == InitChat /\ [][NextRag]_vars

\* C9: of the sendMessage calls of one conversation only the first goes without
\* a session_id; every later one carries a session id the backend returned.
C9_LaterSendsCarrySession ==
    \A i \in 2..Len(ragLog) : ragLog[i] # NoId


\* C11: after clearSession returns, the hook's message list is empty and its
\* sessionId is null, whatever the state before the call.
C11_ClearSessionPurges ==
    ragCleared => session = NoSession


\* ------------------------------------------------------------------- Home

\* a request as reqLog keeps it; full is meaningful for POST /gmail/sync only
Request(name, full) == [req |-> name, full |-> full]

\* window message "gmail-auth-success": handleAuthMessage up to its first await
handleAuthMessage ==
    /\ pcAuth = "idle"
    /\ srvAuth
    /\ pcAuth' = "status"
    /\ reqLog' = <<Request("status", FALSE)>>
    /\ ops < MaxOps
    /\ ops' = ops + 1
    /\ UNCHANGED <<storeVars, opState, srvVars, afterLogout>>
    /\ UNCHANGED <<compVars, authEmails, ghostVars>>
    /\ UNCHANGED activeTab

\* fetchGmailStatus resolves and manualGmailSync(true) runs to its await; a
\* rejected GET /gmail/status ends the handler
HandleAuthStatus ==
    \E ok \in BOOLEAN :
        /\ pcAuth = "status"
        /\ IF ok
           THEN /\ gmailStatus' = StatusOf(srvAuth)
                /\ emails' = filterEmailsForDisplay(allEmails, StatusOf(srvAuth))
                /\ afterLogout' = (afterLogout /\ ~srvAuth)
                /\ isSyncingGmail' = TRUE
                /\ pcAuth' = "sync"
                /\ reqLog' = Append(reqLog, Request("sync", TRUE))
           ELSE /\ pcAuth' = "idle"
                /\ UNCHANGED <<gmailStatus, emails, afterLogout, isSyncingGmail, reqLog>>
        /\ UNCHANGED <<allEmails, selectedEmailId, selectedThreadEmails, isLoading>>
        /\ UNCHANGED <<opVars, srvVars>>
        /\ UNCHANGED <<compVars, authEmails, ghostVars>>
        /\ UNCHANGED activeTab

\* POST /gmail/sync?full=true answers ok: manualGmailSync goes on to GET /emails
HandleAuthSynced ==
    /\ pcAuth = "sync"
    /\ srvAuth
    /\ srv' = SrvSync(srv)
    /\ pcAuth' = "syncEmails"
    /\ reqLog' = Append(reqLog, Request("emails", FALSE))
    /\ UNCHANGED <<storeVars, opVars, srvAuth, afterLogout>>
    /\ UNCHANGED <<compVars, authEmails, ghostVars>>
    /\ UNCHANGED activeTab

\* manualGmailSync: GET /emails answers, GET /gmail/status is asked
HandleAuthSyncEmails ==
    /\ pcAuth = "syncEmails"
    /\ authEmails' = srv
    /\ pcAuth' = "syncStatus"
    /\ reqLog' = Append(reqLog, Request("status", FALSE))
    /\ UNCHANGED <<storeVars, opVars, srvVars, afterLogout>>
    /\ UNCHANGED <<compVars, ghostVars>>
    /\ UNCHANGED activeTab

\* manualGmailSync: GET /gmail/status answers, the store is set; then
\* fetchEmails runs to its await
HandleAuthSyncDone ==
    /\ pcAuth = "syncStatus"
    /\ allEmails' = authEmails
    /\ emails' = filterEmailsForDisplay(authEmails, StatusOf(srvAuth))
    /\ gmailStatus' = StatusOf(srvAuth)
    /\ afterLogout' = (afterLogout /\ ~srvAuth)
    /\ isSyncingGmail' = FALSE
    /\ isLoading' = TRUE
    /\ authEmails' = <<>>
    /\ pcAuth' = "fetch"
    /\ reqLog' = Append(reqLog, Request("emails", FALSE))
    /\ UNCHANGED <<selectedEmailId, selectedThreadEmails>>
    /\ UNCHANGED <<opVars, srvVars>>
    /\ UNCHANGED <<compVars, ghostVars>>
    /\ UNCHANGED activeTab

\* a request of manualGmailSync(true) fails: finally, the catch of
\* handleAuthMessage logs it, and fetchEmails runs to its await
HandleAuthSyncFails ==
    \E cause \in SyncCauses :
        /\ pcAuth \in {"sync", "syncEmails", "syncStatus"}
        /\ pcAuth = "sync" => cause \in SyncCausesNow
        /\ pcAuth # "sync" => cause = "network_error"
        /\ syncFailures' = syncFailures \cup {SyncFailure("auth", cause)}
        /\ UNCHANGED afterReset
        /\ isSyncingGmail' = FALSE
        /\ isLoading' = TRUE
        /\ authEmails' = <<>>
        /\ pcAuth' = "fetch"
        /\ reqLog' = Append(reqLog, Request("emails", FALSE))
        /\ UNCHANGED <<emails, allEmails, gmailStatus, selectedEmailId,
                       selectedThreadEmails>>
        /\ UNCHANGED <<opVars, srvVars, afterLogout>>
        /\ UNCHANGED compVars
        /\ UNCHANGED activeTab

\* fetchEmails settles; if it resolved, resetInbox runs to its await
HandleAuthFetched ==
    \E ok \in BOOLEAN :
        /\ pcAuth = "fetch"
        /\ IF ok
           THEN /\ allEmails' = srv
                /\ emails' = filterEmailsForDisplay(srv, gmailStatus)
                /\ isLoading' = TRUE
                /\ pcAuth' = "reset"
                /\ reqLog' = Append(reqLog, Request("reset", FALSE))
           ELSE /\ isLoading' = FALSE
                /\ pcAuth' = "idle"
                /\ UNCHANGED <<allEmails, emails, reqLog>>
        /\ UNCHANGED <<gmailStatus, selectedEmailId, selectedThreadEmails,
                       isSyncingGmail>>
        /\ UNCHANGED <<opVars, srvVars, afterLogout>>
        /\ UNCHANGED <<compVars, authEmails, ghostVars>>
        /\ UNCHANGED activeTab

\* resetInbox: POST /reset settles
HandleAuthReset ==
    \E ok \in BOOLEAN :
        /\ pcAuth = "reset"
        /\ IF ok
           THEN /\ srv' = SrvReset(srv, srvAuth)
                /\ pcAuth' = "resetGet"
                /\ reqLog' = Append(reqLog, Request("emails", FALSE))
                /\ UNCHANGED isLoading
           ELSE /\ pcAuth' = "idle"
                /\ isLoading' = FALSE
                /\ UNCHANGED <<srv, reqLog>>
        /\ UNCHANGED <<emails, allEmails, gmailStatus, selectedEmailId,
                       selectedThreadEmails, isSyncingGmail>>
        /\ UNCHANGED <<opVars, srvAuth, afterLogout>>
        /\ afterReset' = IF ok THEN [state |-> "sent", gmail |-> srvAuth] ELSE NoReset
        /\ UNCHANGED <<compVars, authEmails, syncFailures>>
        /\ UNCHANGED activeTab

\* resetInbox: GET /emails settles; the handler is done
HandleAuthResetDone ==
    \E ok \in BOOLEAN :
        /\ pcAuth = "resetGet"
        /\ pcAuth' = "idle"
        /\ IF ok
           THEN /\ allEmails' = srv
                /\ emails' = filterEmailsForDisplay(srv, gmailStatus)
                /\ selectedEmailId' = NoId
           ELSE UNCHANGED <<allEmails, emails, selectedEmailId>>
        /\ isLoading' = FALSE
        /\ UNCHANGED <<gmailStatus, selectedThreadEmails, isSyncingGmail>>
        /\ UNCHANGED <<opVars, srvVars, afterLogout>>
        /\ afterReset' = IF ok /\ afterReset.state = "sent"
                         THEN [afterReset EXCEPT !.state = "done"]
                         ELSE NoReset
        /\ UNCHANGED <<compVars, authEmails, reqLog, syncFailures>>
        /\ UNCHANGED activeTab

NextHome ==
    \/ GmailConnect
    \/ handleAuthMessage \/ HandleAuthStatus \/ HandleAuthSynced
    \/ HandleAuthSyncEmails \/ HandleAuthSyncDone \/ HandleAuthSyncFails
    \/ HandleAuthFetched \/ HandleAuthReset \/ HandleAuthResetDone
    \/ fetchEmails \/ FetchEmailsDone
    \/ setSelectedEmailId
    \/ logoutGmail \/ LogoutGmailLogout \/ LogoutGmailDone \/ LogoutGmailFails

SpecHome == Init /\ [][NextHome]_vars

\* C12: on a successful Gmail connection the reset of the ingestion state is
\* requested before the sync, and the sync requested is a full sync.
C12_ResetBeforeFullSync ==
    \A i \in 1..Len(reqLog) :
        reqLog[i].req = "sync" =>
            /\ reqLog[i].full
            /\ \E j \in 1..(i - 1) : reqLog[j].req = "reset"


\* C14: a sync that fails because Gmail is not authenticated gives the user an
\* outcome that no other sync failure gives.
C14_UnauthenticatedIsDistinct ==
    \A f \in syncFailures :
        f.cause = "unauthenticated" =>
            \A c \in SyncCauses \ {"unauthenticated"} : SyncOutcome(f.by, c) # f.outcome


\* C13: after resetInbox completes, and until a new ingestion run is started,
\* no email of the reset scope in emails or allEmails has a category or an
\* action item: events of a run started before the reset do not bring them back.
C13_ResetStaysComplete ==
    afterReset.state = "done" =>
        \A e \in Range(emails) \cup Range(allEmails) :
            IsGmailSource(e) = afterReset.gmail =>
                e.category = NoCategory /\ e.action_items = <<>>


\* the ingestion run with the list loaded and the status known
NextIngest ==
    \/ ingestEmails \/ IngestResponse \/ IngestRead \/ IngestDone
    \/ IngestRefreshError \/ IngestRefreshComplete \/ IngestRefreshFails
    \/ fetchEmails \/ FetchEmailsDone
    \/ fetchGmailStatus

SpecIngest == Init /\ [][NextIngest]_vars

MaxDraftOps == 3

\* emails.find(e => e.id === selectedEmailId), as a set of at most one email
SelectedEmails == {e \in Range(emails) : e.id = selectedEmailId}

\* email.category?.toLowerCase() === "draft" for the categories in use
IsDraft(e) == e.category \in {"Draft", "draft"}

\* the handlers whose click is an explicit send by the user
SendHandlers == {"replyWithGmail", "sendViaGmail"} \cup Composers

\* the requests a handler awaits, in the order of its code, with Save Draft
\* sending what it saved
Script_AutoSend(handler) ==
    CASE handler = "handleGenerate" -> <<"draft">>
      [] handler = "saveDraft" -> <<"saveDraft", "sendGmail", "getEmails">>
      [] handler = "replyWithGmail" -> <<"sendGmail", "getEmails">>
      [] handler = "sendViaGmail" -> <<"sendGmail", "deleteDraft", "getEmails">>
      [] OTHER -> <<"sendGmail", "getEmails", "getGmailStatus">>

\* the requests a handler awaits, with Send via Gmail deleting the draft
\* before it sends
Script_DeleteFirst(handler) ==
    CASE handler = "handleGenerate" -> <<"draft">>
      [] handler = "saveDraft" -> <<"saveDraft", "getEmails">>
      [] handler = "replyWithGmail" -> <<"sendGmail", "getEmails">>
      [] handler = "sendViaGmail" -> <<"deleteDraft", "sendGmail", "getEmails">>
      [] OTHER -> <<"sendGmail", "getEmails", "getGmailStatus">>

\* the requests a handler awaits, in the order of its code
Script(handler) ==
    CASE handler = "handleGenerate" -> <<"draft">>
      [] handler = "saveDraft" -> <<"saveDraft", "getEmails">>
      [] handler = "replyWithGmail" -> <<"sendGmail", "getEmails">>
      [] handler = "sendViaGmail" -> <<"sendGmail", "deleteDraft", "getEmails">>
      [] OTHER -> <<"sendGmail", "getEmails", "getGmailStatus">>

\* a handler runs to its first await
StartCall(handler) ==
    /\ draftOps < MaxDraftOps
    /\ draftOps' = draftOps + 1
    /\ calls' = Append(calls, [handler |-> handler, step |-> 1])
    /\ outbox' = outbox \cup {[api |-> Script(handler)[1], handler |-> handler, step |-> 1]}

\* the "Draft Reply" / "Edit Draft" button of the email detail: DraftEditor
\* mounts, and its effect pre-fills an existing draft
openDraftEditor ==
    /\ ~showDraftEditor
    /\ draftOps < MaxDraftOps
    /\ draftOps' = draftOps + 1
    /\ \E e \in SelectedEmails :
           draft' = IF IsDraft(e) THEN "text" ELSE NoDraft
    /\ showDraftEditor' = TRUE
    /\ draftLoading' = FALSE
    /\ UNCHANGED <<isSending, composeError, calls, outbox>>
    /\ UNCHANGED <<storeVars, opVars, srvVars, afterLogout, homeVars, ghostVars>>
    /\ UNCHANGED <<inboxVars, agentVars, chatVars, ragVars, chatLog>>

\* Generate Draft button (shown without a draft, disabled while loading)
handleGenerate ==
    /\ showDraftEditor
    /\ selectedEmailId # NoId
    /\ \E e \in SelectedEmails : ~IsDraft(e)
    /\ draft = NoDraft
    /\ ~draftLoading
    /\ draftLoading' = TRUE
    /\ StartCall("handleGenerate")
    /\ UNCHANGED <<showDraftEditor, draft, isSending, composeError>>
    /\ UNCHANGED <<storeVars, opVars, srvVars, afterLogout, homeVars, ghostVars>>
    /\ UNCHANGED <<inboxVars, agentVars, chatVars, ragVars, chatLog>>

\* Save Draft button
saveDraft ==
    /\ showDraftEditor
    /\ SelectedEmails # {}
    /\ draft # NoDraft
    /\ StartCall("saveDraft")
    /\ UNCHANGED <<showDraftEditor, draft, draftLoading, isSending, composeError>>
    /\ UNCHANGED <<storeVars, opVars, srvVars, afterLogout, homeVars, ghostVars>>
    /\ UNCHANGED <<inboxVars, agentVars, chatVars, ragVars, chatLog>>

\* Start Over button
startOver ==
    /\ showDraftEditor
    /\ \E e \in SelectedEmails : ~IsDraft(e)
    /\ draft # NoDraft
    /\ draft' = NoDraft
    /\ draftOps < MaxDraftOps
    /\ draftOps' = draftOps + 1
    /\ UNCHANGED <<showDraftEditor, draftLoading, isSending, composeError, calls, outbox>>
    /\ UNCHANGED <<storeVars, opVars, srvVars, afterLogout, homeVars, ghostVars>>
    /\ UNCHANGED <<inboxVars, agentVars, chatVars, ragVars, chatLog>>

\* Reply with Gmail button (shown for a non-draft when Gmail is connected)
replyWithGmail ==
    /\ showDraftEditor
    /\ \E e \in SelectedEmails : ~IsDraft(e)
    /\ gmailStatus.authenticated
    /\ draft # NoDraft
    /\ StartCall("replyWithGmail")
    /\ UNCHANGED <<showDraftEditor, draft, draftLoading, isSending, composeError>>
    /\ UNCHANGED <<storeVars, opVars, srvVars, afterLogout, homeVars, ghostVars>>
    /\ UNCHANGED <<inboxVars, agentVars, chatVars, ragVars, chatLog>>

\* Send via Gmail button of a selected draft, its confirm answered yes
sendViaGmail ==
    /\ \E e \in SelectedEmails : IsDraft(e)
    /\ gmailStatus.authenticated
    /\ StartCall("sendViaGmail")
    /\ UNCHANGED <<showDraftEditor, draft, draftLoading, isSending, composeError>>
    /\ UNCHANGED <<storeVars, opVars, srvVars, afterLogout, homeVars, ghostVars>>
    /\ UNCHANGED <<inboxVars, agentVars, chatVars, ragVars, chatLog>>

\* Send button of ComposePage or GmailComposer (disabled while sending); the
\* composer is opened by openComposer, which wants Gmail connected
ComposerHandleSend ==
    \E c \in Composers, hasRecipient \in BOOLEAN :
        /\ ~isSending[c]
        /\ c = "GmailComposer" => gmailStatus.authenticated
        /\ IF hasRecipient
           THEN /\ isSending' = [isSending EXCEPT ![c] = TRUE]
                /\ composeError' = [composeError EXCEPT ![c] = FALSE]
                /\ StartCall(c)
           ELSE /\ composeError' = [composeError EXCEPT ![c] = TRUE]
                /\ draftOps < MaxDraftOps
                /\ draftOps' = draftOps + 1
                /\ UNCHANGED <<isSending, calls, outbox>>
        /\ UNCHANGED <<showDraftEditor, draft, draftLoading>>
        /\ UNCHANGED <<storeVars, opVars, srvVars, afterLogout, homeVars, ghostVars>>
        /\ UNCHANGED <<inboxVars, agentVars, chatVars, ragVars, chatLog>>

\* the request a handler awaits settles: the handler runs to its next await,
\* or to its end (a rejection ends it through its catch / finally)
CallSettle ==
    \E i \in 1..Len(calls), ok \in BOOLEAN :
        LET c == calls[i]
            api == Script(c.handler)[c.step]
            more == ok /\ c.step < Len(Script(c.handler))
            nextApi == Script(c.handler)[c.step + 1]
            ends == ~more
            status == StatusOf(srvAuth)
        IN /\ calls' = IF more THEN [calls EXCEPT ![i].step = @ + 1] ELSE RemoveAt(calls, i)
           /\ outbox' = IF more
                        THEN outbox \cup {[api |-> nextApi, handler |-> c.handler,
                                             step |-> c.step + 1]}
                        ELSE outbox
           \* the store: fetchEmails, fetchGmailStatus, setSelectedEmailId(null)
           /\ isLoading' = IF more /\ nextApi = "getEmails" THEN TRUE
                           ELSE IF api = "getEmails" THEN FALSE ELSE isLoading
           /\ allEmails' = IF ok /\ api = "getEmails" THEN srv ELSE allEmails
           /\ emails' = IF ok /\ api = "getEmails"
                        THEN filterEmailsForDisplay(srv, gmailStatus)
                        ELSE IF ok /\ api = "getGmailStatus"
                        THEN filterEmailsForDisplay(allEmails, status)
                        ELSE emails
           /\ gmailStatus' = IF ok /\ api = "getGmailStatus" THEN status ELSE gmailStatus
           /\ afterLogout' = IF ok /\ api = "getGmailStatus" THEN afterLogout /\ ~srvAuth
                             ELSE afterLogout
           /\ selectedEmailId' = IF ok /\ api = "deleteDraft" THEN NoId ELSE selectedEmailId
           \* the components
           /\ draftLoading' = IF c.handler = "handleGenerate" THEN FALSE ELSE draftLoading
           /\ draft' = IF ok /\ api = "draft" THEN "text" ELSE draft
           /\ showDraftEditor' =
                  IF ok /\ ends /\ c.handler \in {"saveDraft", "replyWithGmail"}
                  THEN FALSE ELSE showDraftEditor
           /\ isSending' = IF ends /\ c.handler \in Composers
                           THEN [isSending EXCEPT ![c.handler] = FALSE] ELSE isSending
           /\ composeError' = IF ends /\ c.handler \in Composers
                              THEN [composeError EXCEPT ![c.handler] = ~ok]
                              ELSE composeError
           /\ UNCHANGED <<selectedThreadEmails, isSyncingGmail, draftOps>>
           /\ UNCHANGED <<opVars, srvVars, homeVars, ghostVars>>
           /\ UNCHANGED <<inboxVars, agentVars, chatVars, ragVars, chatLog>>

\* the X button of DraftEditor
closeDraftEditor ==
    /\ showDraftEditor
    /\ showDraftEditor' = FALSE
    /\ draftOps < MaxDraftOps
    /\ draftOps' = draftOps + 1
    /\ UNCHANGED <<draft, draftLoading, isSending, composeError, calls, outbox>>
    /\ UNCHANGED <<storeVars, opVars, srvVars, afterLogout, homeVars, ghostVars>>
    /\ UNCHANGED <<inboxVars, agentVars, chatVars, ragVars, chatLog>>

\* the Gmail inbox loaded, d1 a saved draft, and one of the received email g1
\* and the draft d1 opened in the detail view (setSelectedEmailId marks it read)
InitDraft ==
    /\ InitUi
    /\ InitOps
    /\ srvAuth = TRUE
    /\ \E sel \in {"g1", "d1"} :
           /\ selectedEmailId = sel
           /\ srv = MapSeq(Universe, LAMBDA id :
                        [FreshEmail(id) EXCEPT
                             !.category = IF id = "d1" THEN "Draft" ELSE @,
                             !.read = (id = sel)])
    /\ allEmails = srv
    /\ gmailStatus = StatusOf(TRUE)
    /\ emails = filterEmailsForDisplay(allEmails, gmailStatus)
    /\ selectedThreadEmails = <<>>
    /\ isLoading = FALSE
    /\ isSyncingGmail = FALSE
    /\ afterLogout = FALSE

NextDraft ==
    \/ openDraftEditor \/ closeDraftEditor
    \/ handleGenerate \/ saveDraft \/ startOver \/ replyWithGmail
    \/ sendViaGmail \/ ComposerHandleSend
    \/ CallSettle

SpecDraft == InitDraft /\ [][NextDraft]_vars

\* C16: a send request is issued only as the direct result of an explicit send
\* action of the user (Send, Reply with Gmail, a confirmed Send via Gmail):
\* every sendGmail request is the first request of such a handler, and the
\* handlers that generate or save a draft issue none.
C16_NeverSendAutomatically ==
    \A r \in outbox :
        r.api = "sendGmail" => r.handler \in SendHandlers /\ r.step = 1

\* a draft was generated, and the reply was sent by its button
C16_Witness ==
    /\ \E r \in outbox : r.api = "draft"
    /\ \E r \in outbox : r.api = "sendGmail" /\ r.handler = "replyWithGmail"


\* ------------------------------------- the frame of the ingestion events

\* list `after` is list `before` with one field of the email id replaced and
\* nothing else changed: same emails, same order, same other fields
OnlyCategoryChanged(before, after, ev) ==
    after = MapSeq(before, LAMBDA e :
                IF e.id = ev.id THEN [e EXCEPT !.category = ev.category] ELSE e)

OnlyActionItemsChanged(before, after, ev) ==
    after = MapSeq(before, LAMBDA e :
                IF e.id = ev.id THEN [e EXCEPT !.action_items = ev.action_items] ELSE e)

\* C19: a category event sets category of the email with the same id to the
\* received string and touches nothing else: every other field and every
\* other email is unchanged and no email is added, removed or reordered, in
\* the displayed list as in the full list (an event for an id the list does
\* not hold changes nothing); an action_items event likewise changes only the
\* action_items of the matching email. Stated of the event a run that is
\* reading its stream receives next.
C19_EventTouchesOnlyItsField ==
    \A i \in 1..Len(runs) :
        runs[i].pc = "read" =>
            \A ev \in Events :
                LET st == ProcessLines([all |-> allEmails, shown |-> emails,
                                        run |-> runs[i]], <<ev>>)
                IN /\ ev.type = "category" =>
                          /\ OnlyCategoryChanged(allEmails, st.all, ev)
                          /\ OnlyCategoryChanged(emails, st.shown, ev)
                   /\ ev.type = "action_items" =>
                          /\ OnlyActionItemsChanged(allEmails, st.all, ev)
                          /\ OnlyActionItemsChanged(emails, st.shown, ev)


\* ------------------------------------------------ the inbox list's system

MaxInboxLen == 3

\* the ids an inbox of the connected account is drawn from: n1's timestamp
\* does not parse
InboxIds == {"g1", "g2", "d1", "n1"}

\* the sequences without repetition over a set of ids, up to a length
RECURSIVE ListsOver(_, _)
ListsOver(ids, n) ==
    IF n = 0 THEN {<<>>}
    ELSE LET shorter == ListsOver(ids, n - 1)
         IN shorter \cup {Append(l, id) : l \in shorter, id \in ids}

NoRepeat(l) == \A i, j \in 1..Len(l) : l[i] = l[j] => i = j

\* the orders GET /emails can list the emails in; with the unparseable
\* timestamp at most two emails, where NaN as 0 is a consistent comparator
InboxInputs ==
    {l \in ListsOver(InboxIds, MaxInboxLen) :
        /\ NoRepeat(l)
        /\ (\E i \in 1..Len(l) : l[i] = "n1") => Len(l) <= 2}

\* the inbox of the connected account fetched, nothing selected yet
InitInbox ==
    /\ InitUi
    /\ InitOps
    /\ srvAuth = TRUE
    /\ \E l \in InboxInputs : srv = MapSeq(l, FreshEmail)
    /\ allEmails = srv
    /\ gmailStatus = StatusOf(TRUE)
    /\ emails = filterEmailsForDisplay(allEmails, gmailStatus)
    /\ selectedEmailId = NoId
    /\ selectedThreadEmails = <<>>
    /\ isLoading = FALSE
    /\ isSyncingGmail = FALSE
    /\ afterLogout = FALSE

NextInbox == toggleThread \/ handleEmailClick

SpecInbox == InitInbox /\ [][NextInbox]_vars

\* the time values that are times
Parsed(members) ==
    {TimestampOf(members[i].id) : i \in 1..Len(members)} \ {NaN}

\* C18: the inbox list is sorted most recent first: threads are listed in
\* descending order of latestTimestamp, each thread's latestTimestamp is the
\* maximum timestamp of its emails, and the emails inside a thread are in
\* descending timestamp order, for every list of emails. Timestamps that are
\* no times are left out of the orders and of the maximum.
C18_MostRecentFirst ==
    LET ts == threads
    IN /\ \A j, k \in 1..Len(ts) :
              j < k /\ ts[j].latestTimestamp # NaN /\ ts[k].latestTimestamp # NaN
                  => ts[j].latestTimestamp >= ts[k].latestTimestamp
       /\ \A k \in 1..Len(ts) :
              Parsed(ts[k].emails) # {} =>
                  /\ ts[k].latestTimestamp \in Parsed(ts[k].emails)
                  /\ \A t \in Parsed(ts[k].emails) : ts[k].latestTimestamp >= t
       /\ \A k \in 1..Len(ts) :
              LET es == ts[k].emails
              IN \A i, j \in 1..Len(es) :
                     i < j /\ TimestampOf(es[i].id) # NaN /\ TimestampOf(es[j].id) # NaN
                         => TimestampOf(es[i].id) >= TimestampOf(es[j].id)


\* ------------------------------------------- disconnecting Gmail and the chats

\* the user leaves the AI Chat tab and comes back: Chat is mounted anew, reads
\* general-chat-history, and its persistence effect writes what it read; the
\* replies the old instance was waiting for are dropped
ChatRemount ==
    /\ clicks < MaxClicks
    /\ clicks' = clicks + 1
    /\ messages' = IF lsChat.present THEN lsChat.value ELSE <<>>
    /\ lsChat' = Item(messages')
    /\ oldChat' = (oldChat /\ lsChat.present)
    /\ chatLoading' = FALSE
    /\ chatReqs' = <<>>
    /\ UNCHANGED chatSends
    /\ UNCHANGED <<storeVars, opVars, srvVars, afterLogout, homeVars, ghostVars, draftVars>>
    /\ UNCHANGED <<expandedThreads, agentVars, ragVars, chatLog>>

NextDisconnect ==
    \/ handleEmailClick
    \/ handleSend \/ HandleSendSettle \/ handleReset
    \/ ChatHandleSend \/ ChatHandleSendSettle \/ ChatHandleReset \/ ChatRemount
    \/ logoutGmail \/ LogoutGmailLogout \/ LogoutGmailDone \/ LogoutGmailFails

SpecDisconnect == InitChat /\ [][NextDisconnect]_vars

\* C20: after handleDisconnectGmail has completed, no chat message recorded
\* before the disconnect is shown in AgentChat or Chat, and none is written
\* again to the items email-agent-history and general-chat-history.
C20_DisconnectClearsChatHistory ==
    /\ ~oldChat
    /\ chatKey \notin oldKeys
    /\ ~(lsChat.present /\ oldChat)
    /\ ~(lsAgent.present /\ oldKeys \cap DOMAIN lsAgent.value # {})


\* ------------------------------------------- the chat context and the inbox

IdsOf(list) == MapSeq(list, LAMBDA e : e.id)

\* the threads of more than one email that hold the selected email
SelectedThreads ==
    {t \in Range(threads) :
        Len(t.emails) > 1 /\ \E k \in 1..Len(t.emails) : t.emails[k].id = selectedEmailId}

\* C21: for the multi-email thread that holds the selected email, the chat
\* context selectedThreadEmails is the selected email alone while the thread is
\* expanded and all the emails of the thread while it is collapsed, in every
\* state reached by clicks on emails and on the chevron. Emails are compared
\* by id.
C21_ContextFollowsExpansion ==
    \A t \in SelectedThreads :
        IdsOf(selectedThreadEmails) =
            IF t.id \in expandedThreads THEN <<selectedEmailId>> ELSE IdsOf(t.emails)


\* ----------------------------------------------- the Send via Gmail flow

\* the Send via Gmail flows that have issued a request of this kind
SentBy(api) == {r \in outbox : r.handler = "sendViaGmail" /\ r.api = api}

\* the step of a Send via Gmail flow whose send request failed: the flow
\* leaves `calls` at its first request
SendViaGmailFailed(i) ==
    /\ calls[i].handler = "sendViaGmail"
    /\ calls[i].step = 1
    /\ calls' = RemoveAt(calls, i)

\* C22: in the Send via Gmail flow api.deleteDraft is called only after
\* api.sendGmail resolved (it is never the flow's first request, and the
\* flow's first request is the send); when the send fails the flow issues no
\* further request, and selectedEmailId and the lists are as they were.
C22_DeleteOnlyAfterSend ==
    /\ [](\A r \in SentBy("deleteDraft") : r.step = 2 /\ SentBy("sendGmail") # {})
    /\ [](\A r \in SentBy("sendGmail") : r.step = 1)
    /\ [][\A i \in 1..Len(calls) :
              SendViaGmailFailed(i) =>
                  /\ outbox' = outbox
                  /\ selectedEmailId' = selectedEmailId
                  /\ emails' = emails
                  /\ allEmails' = allEmails]_vars

\* a Send via Gmail flow has ended with its send failed: no flow is in flight,
\* none has deleted, and the draft is still selected and listed
C22_Witness ==
    /\ SentBy("sendGmail") # {}
    /\ SentBy("deleteDraft") = {}
    /\ \A i \in 1..Len(calls) : calls[i].handler # "sendViaGmail"
    /\ \E e \in SelectedEmails : IsDraft(e)


\* -------------------------------------------------- the frame of a failed sync

\* manualGmailSync is between its first set() and its settling
SyncInFlight == pcSync \in {"sync", "emails", "status"}

\* C23: a manualGmailSync whose sync request, or the refetch of the emails or
\* of the status after it, fails rejects without having written emails,
\* allEmails or gmailStatus: none of its steps before the rejection and not the
\* rejection itself changes them, and the rejection leaves isSyncingGmail false.
C23_FailedSyncLeavesStore ==
    /\ [][SyncInFlight /\ pcSync' \in {"emails", "status", "rejected"} /\ pcSync' # pcSync =>
              /\ emails' = emails
              /\ allEmails' = allEmails
              /\ gmailStatus' = gmailStatus]_vars
    /\ [][SyncInFlight /\ pcSync' = "rejected" => ~isSyncingGmail']_vars
    /\ [](pcSync = "rejected" => ~isSyncingGmail)

\* a sync was rejected while the backend held emails the store had not loaded
C23_Witness ==
    /\ pcSync = "rejected"
    /\ gmailStatus.authenticated
    /\ allEmails # srv


\* ------------------------------------------ the chunking of the event stream

NextSplit == NextIngest \/ IngestReadSplit

SpecSplit == Init /\ [][NextSplit]_vars

goToSourceEmail ==
    \E task \in allTasks :
        /\ clicks < MaxClicks
        /\ clicks' = clicks + 1
        /\ SetSelected(task.emailId)
        /\ activeTab' = "inbox"
        /\ UNCHANGED <<gmailStatus, selectedThreadEmails, isLoading, isSyncingGmail>>
        /\ UNCHANGED <<opVars, srvAuth, afterLogout, ghostVars, draftVars>>
        /\ UNCHANGED <<pcAuth, authEmails, reqLog>>
        /\ UNCHANGED <<expandedThreads, agentVars, chatVars, ragVars, chatLog>>

NextFocus ==
    \/ handleEmailClick
    \/ toggleThread
    \/ goToSourceEmail
    \/ handleSend
    \/ HandleSendSettle
    \/ handleReset

SpecFocus == InitTasks /\ [][NextFocus]_vars

\* C25: whenever an email is selected, the agent's thread context holds the
\* email with the selected id, and a chat request that carries thread ids
\* names its own email id among them.
C25_FocusInContext ==
    /\ selectedEmailId # NoId =>
           \E k \in 1..Len(selectedThreadEmails) :
               selectedThreadEmails[k].id = selectedEmailId
    /\ \A i \in 1..Len(agentReqs) :
           agentReqs[i].threadEmailIds # <<>> =>
               \E k \in 1..Len(agentReqs[i].threadEmailIds) :
                   agentReqs[i].threadEmailIds[k] = agentReqs[i].emailId


\* ------------------------------------------ the displayed list and the full list

\* a is b with some elements left out: the same records in the same order
RECURSIVE IsView(_, _)
IsView(a, b) ==
    IF a = <<>> THEN TRUE
    ELSE IF b = <<>> THEN FALSE
    ELSE IF Head(a) = Head(b) THEN IsView(Tail(a), Tail(b))
    ELSE IsView(a, Tail(b))

\* C26: in every store state the displayed list is a view of the full list:
\* each of its emails is an email of the full list with the same field values,
\* and the two lists have them in the same order.
C26_ShownIsViewOfAll == IsView(emails, allEmails)

\* the displayed list is a proper part of the full list, and a selection has
\* written the read flag of one of its emails in both lists
C26_Witness ==
    /\ emails # <<>>
    /\ Len(emails) < Len(allEmails)
    /\ \E i \in 1..Len(emails) : emails[i].read


\* ------------------------------------------------ the tabs and the composer

\* the tabs the Sidebar has a NavItem for
SidebarTabs ==
    {"inbox", "compose", "drafts", "spam", "action_items", "chat", "prompts", "settings"}

\* gmailStatus?.authenticated
Authenticated == gmailStatus.known /\ gmailStatus.authenticated

\* a click on a NavItem of the Sidebar: setActiveTab(tab); the Compose item is
\* rendered only while authenticated
setActiveTab ==
    \E tab \in SidebarTabs :
        /\ tab = "compose" => Authenticated
        /\ tab # activeTab
        /\ clicks < MaxClicks
        /\ clicks' = clicks + 1
        /\ activeTab' = tab
        /\ UNCHANGED <<storeVars, opVars, srvVars, afterLogout, ghostVars, draftVars>>
        /\ UNCHANGED <<pcAuth, authEmails, reqLog>>
        /\ UNCHANGED <<expandedThreads, agentVars, chatVars, ragVars, chatLog>>

\* Home.openComposer: without a connection it alerts and returns
openComposer ==
    /\ Authenticated
    /\ clicks < MaxClicks
    /\ clicks' = clicks + 1
    /\ activeTab' = "compose"
    /\ UNCHANGED <<storeVars, opVars, srvVars, afterLogout, ghostVars, draftVars>>
    /\ UNCHANGED <<pcAuth, authEmails, reqLog>>
    /\ UNCHANGED <<expandedThreads, agentVars, chatVars, ragVars, chatLog>>

NextCompose ==
    \/ setActiveTab \/ openComposer
    \/ fetchGmailStatus \/ GmailConnect
    \/ fetchEmails \/ FetchEmailsDone
    \/ logoutGmail \/ LogoutGmailLogout \/ LogoutGmailDone \/ LogoutGmailFails

SpecCompose == Init /\ [][NextCompose]_vars

\* C27: whenever the active tab is compose, the store's Gmail status says
\* authenticated.
C27_ComposeRequiresGmail == activeTab = "compose" => Authenticated


\* ------------------------------------------------------------ the busy flags

\* how many store operations that set isLoading have not returned yet
LoadingOps ==
    Len(runs) + (IF pcFetch = "idle" THEN 0 ELSE 1)
              + (IF pcReset = "idle" THEN 0 ELSE 1)
              + (IF pcLoad = "idle" THEN 0 ELSE 1)

\* C28: an operation that set isLoading or isSyncingGmail clears it in the step
\* in which it returns, by success or by a throw, and whenever no such
\* operation is in flight the flag is false.
C28_BusyFlagsReleased ==
    /\ [](LoadingOps = 0 => ~isLoading)
    /\ [](~SyncInFlight => ~isSyncingGmail)
    /\ [][LoadingOps' < LoadingOps => ~isLoading']_vars
    /\ [][SyncInFlight /\ ~SyncInFlight' => ~isSyncingGmail']_vars

\* a fetch and a sync have both failed and returned, and nothing is in flight
C28_Witness ==
    /\ LoadingOps = 0
    /\ pcSync = "rejected"
    /\ ops >= 2
    /\ allEmails = <<>>
    /\ ~isLoading /\ ~isSyncingGmail


\* ------------------------------------------------ the general Chat's message list

\* C29: in the general Chat at most one chat request is in flight, and the
\* message list alternates user, assistant, user, ... from a user message on:
\* odd positions hold user messages and even positions assistant messages.
C29_ChatAlternates ==
    /\ Len(chatReqs) <= 1
    /\ \A k \in 1..Len(messages) :
           messages[k].role = IF k % 2 = 1 THEN "user" ELSE "assistant"


\* ------------------------------------------------ the normalisation of subjects

\* a subject without its surrounding whitespace, its letter case and every
\* leading Re:/Fwd:/Fw: prefix
RECURSIVE StripPrefixes(_)
StripPrefixes(str) ==
    LET t == Trim(str)
    IN IF PrefixMatch(t) = 0 THEN LowerStr(t)
       ELSE StripPrefixes(SubSeq(t, PrefixMatch(t) + 1, Len(t)))

\* C30: normalizeSubject is idempotent on the subject of every listed email,
\* and two listed emails whose subjects differ only by leading Re:/Fwd:/Fw:
\* prefixes, letter case and surrounding whitespace get the same thread key.
C30_NormalizeIdempotent ==
    /\ \A i \in 1..Len(filteredEmails) :
           LET subject == SubjectOf(filteredEmails[i].id)
           IN normalizeSubject(normalizeSubject(subject)) = normalizeSubject(subject)
    /\ \A i, j \in 1..Len(filteredEmails) :
           LET a == SubjectOf(filteredEmails[i].id)
               b == SubjectOf(filteredEmails[j].id)
           IN StripPrefixes(a) = StripPrefixes(b) => normalizeSubject(a) = normalizeSubject(b)


====
